---- MODULE Spec2Model ----
(***************************************************************************)
(* Hierarchical task manager (matanw/planning): the browser-storage and    *)
(* Supabase storage services, the App's filtered view and tree builder.    *)
(*                                                                         *)
(* Representation.  A JavaScript string is the sequence of its UTF-16 code *)
(* units; an optional value (a property that may be undefined) is a        *)
(* sequence of length at most one: <<>> is undefined, <<v>> is v; a Date   *)
(* is its instant in milliseconds.                                         *)
(***************************************************************************)
EXTENDS Integers, Sequences, FiniteSets, TLC

VARIABLES
    localStorage,   \* browser localStorage: key -> optional stored JSON value
    clock,          \* the last reading of the wall clock (Date.now())
    steps,          \* number of user-level operations issued so far
    last,           \* the last storage-service call and what it returned
    importResult,   \* ExportImport's importResult state (optional)
    table,          \* the rows of the Supabase `tasks` table, in insertion order
    sequence,       \* the next value of the table's SERIAL id sequence
    dbService,      \* App: the storage backend createStorageService chose
    filters,        \* App: the filters state
    sortOptions,    \* App: the sortOptions state
    loadedTasks,    \* App: the tasks state (loadedTasks, the last query result)
    taskTree,       \* App: the taskTree state (the forest built from it)
    download,       \* the last file exportTasks downloaded, and the tasks in it (optional)
    form,           \* App and TaskForm: isFormOpen, selectedTask, formData
    settings,       \* the storage settings: localStorage items, build-time variables, connection
    eventLoop       \* the asynchronous calls in progress: import loop and user handler

vars == <<localStorage, clock, steps, last, importResult, table, sequence,
          dbService, filters, sortOptions, loadedTasks, taskTree, download, form, settings, eventLoop>>
supabaseVars == <<table, sequence>>
browserVars == <<localStorage, importResult>>
appVars == <<dbService, filters, sortOptions, loadedTasks, taskTree, download, form, settings, eventLoop>>

(***************************************************************************)
(* Bounds of the model.                                                    *)
(***************************************************************************)
MaxSteps == 3       \* operations issued in one behaviour
SbMaxSteps == 2     \* operations issued in one behaviour of the Supabase backend
MaxTicks == 2       \* milliseconds that pass in one behaviour
ClockBase == 1000   \* Date.now() when the page is first opened
MissingId == 999    \* an id no task ever gets (below ClockBase, above the samples)

(***************************************************************************)
(* Generic helpers on sequences.                                           *)
(***************************************************************************)
Range(s) == { s[i] : i \in 1..Len(s) }

\* Array.prototype.findIndex, 1-based; 0 stands for JavaScript's -1.
findIndex(s, Test(_)) ==
    LET hits == { i \in 1..Len(s) : Test(s[i]) }
    IN  IF hits = {} THEN 0 ELSE CHOOSE i \in hits : \A j \in hits : i <= j

\* Array.prototype.splice(index, 1) at a 1-based index.
splice1(s, index) == SubSeq(s, 1, index - 1) \o SubSeq(s, index + 1, Len(s))

\* a || b for an optional value a whose falsy payload is `falsy`.
OrElse(a, falsy, b) == IF a = <<>> \/ a[1] = falsy THEN b ELSE a[1]

(***************************************************************************)
(* String literals of the source, as code-unit sequences.                  *)
(***************************************************************************)
NOT_STARTED == <<110, 111, 116, 95, 115, 116, 97, 114, 116, 101, 100>> \* 'not_started'
IN_PROGRESS == <<105, 110, 95, 112, 114, 111, 103, 114, 101, 115, 115>> \* 'in_progress'
DONE == <<100, 111, 110, 101>> \* 'done'
TaskStatus == {NOT_STARTED, IN_PROGRESS, DONE}

\* id 1: 'Education' / 'Learning and educational goals' / ['learning', 'personal']
sampleTitle1 == <<69, 100, 117, 99, 97, 116, 105, 111, 110>>
sampleDescription1 == <<76, 101, 97, 114, 110, 105, 110, 103, 32, 97, 110, 100, 32, 101, 100, 117, 99, 97, 116, 105, 111, 110, 97, 108, 32, 103, 111, 97, 108, 115>>
sampleLabels1 == << <<108, 101, 97, 114, 110, 105, 110, 103>>, <<112, 101, 114, 115, 111, 110, 97, 108>> >>
\* id 2: 'Halacha' / 'Jewish law studies' / ['religion', 'study']
sampleTitle2 == <<72, 97, 108, 97, 99, 104, 97>>
sampleDescription2 == <<74, 101, 119, 105, 115, 104, 32, 108, 97, 119, 32, 115, 116, 117, 100, 105, 101, 115>>
sampleLabels2 == << <<114, 101, 108, 105, 103, 105, 111, 110>>, <<115, 116, 117, 100, 121>> >>
\* id 3: 'Meat & Milk Discussion' / 'Understanding the laws of mixing meat and milk' / ['kashrut', 'halacha']
sampleTitle3 == <<77, 101, 97, 116, 32, 38, 32, 77, 105, 108, 107, 32, 68, 105, 115, 99, 117, 115, 115, 105, 111, 110>>
sampleDescription3 == <<85, 110, 100, 101, 114, 115, 116, 97, 110, 100, 105, 110, 103, 32, 116, 104, 101, 32, 108, 97, 119, 115, 32, 111, 102, 32, 109, 105, 120, 105, 110, 103, 32, 109, 101, 97, 116, 32, 97, 110, 100, 32, 109, 105, 108, 107>>
sampleLabels3 == << <<107, 97, 115, 104, 114, 117, 116>>, <<104, 97, 108, 97, 99, 104, 97>> >>
\* id 4: 'Finish source page TaaM Kaikar' / 'Complete the source analysis for TaaM Kaikar' / ['research', 'sources']
sampleTitle4 == <<70, 105, 110, 105, 115, 104, 32, 115, 111, 117, 114, 99, 101, 32, 112, 97, 103, 101, 32, 84, 97, 97, 77, 32, 75, 97, 105, 107, 97, 114>>
sampleDescription4 == <<67, 111, 109, 112, 108, 101, 116, 101, 32, 116, 104, 101, 32, 115, 111, 117, 114, 99, 101, 32, 97, 110, 97, 108, 121, 115, 105, 115, 32, 102, 111, 114, 32, 84, 97, 97, 77, 32, 75, 97, 105, 107, 97, 114>>
sampleLabels4 == << <<114, 101, 115, 101, 97, 114, 99, 104>>, <<115, 111, 117, 114, 99, 101, 115>> >>
\* id 5: 'Finance' / 'Financial planning and management' / ['money', 'planning']
sampleTitle5 == <<70, 105, 110, 97, 110, 99, 101>>
sampleDescription5 == <<70, 105, 110, 97, 110, 99, 105, 97, 108, 32, 112, 108, 97, 110, 110, 105, 110, 103, 32, 97, 110, 100, 32, 109, 97, 110, 97, 103, 101, 109, 101, 110, 116>>
sampleLabels5 == << <<109, 111, 110, 101, 121>>, <<112, 108, 97, 110, 110, 105, 110, 103>> >>
\* id 6: 'Social Security' / 'Social security related tasks' / ['government', 'benefits']
sampleTitle6 == <<83, 111, 99, 105, 97, 108, 32, 83, 101, 99, 117, 114, 105, 116, 121>>
sampleDescription6 == <<83, 111, 99, 105, 97, 108, 32, 115, 101, 99, 117, 114, 105, 116, 121, 32, 114, 101, 108, 97, 116, 101, 100, 32, 116, 97, 115, 107, 115>>
sampleLabels6 == << <<103, 111, 118, 101, 114, 110, 109, 101, 110, 116>>, <<98, 101, 110, 101, 102, 105, 116, 115>> >>
\* id 7: 'Check unemployment situation' / 'Verify current unemployment status and benefits' / ['benefits', 'status']
sampleTitle7 == <<67, 104, 101, 99, 107, 32, 117, 110, 101, 109, 112, 108, 111, 121, 109, 101, 110, 116, 32, 115, 105, 116, 117, 97, 116, 105, 111, 110>>
sampleDescription7 == <<86, 101, 114, 105, 102, 121, 32, 99, 117, 114, 114, 101, 110, 116, 32, 117, 110, 101, 109, 112, 108, 111, 121, 109, 101, 110, 116, 32, 115, 116, 97, 116, 117, 115, 32, 97, 110, 100, 32, 98, 101, 110, 101, 102, 105, 116, 115>>
sampleLabels7 == << <<98, 101, 110, 101, 102, 105, 116, 115>>, <<115, 116, 97, 116, 117, 115>> >>

(***************************************************************************)
(* The Task record (types/task.ts).                                        *)
(***************************************************************************)
Task(id, title, description, status, deadline, parent_id, created_at, updated_at, labels, priority) ==
    [ id |-> id, title |-> title, description |-> description, status |-> status,
      deadline |-> deadline, parent_id |-> parent_id, created_at |-> created_at,
      updated_at |-> updated_at, labels |-> labels, priority |-> priority ]

\* The sample data of initializeSchema; every `new Date()` reads `now`.
sampleTasks(now) ==
    << Task(1, sampleTitle1, <<sampleDescription1>>, IN_PROGRESS, <<>>, <<>>,  now, now, sampleLabels1, 0),
       Task(2, sampleTitle2, <<sampleDescription2>>, NOT_STARTED, <<>>, <<1>>, now, now, sampleLabels2, 0),
       Task(3, sampleTitle3, <<sampleDescription3>>, NOT_STARTED, <<>>, <<2>>, now, now, sampleLabels3, 0),
       Task(4, sampleTitle4, <<sampleDescription4>>, NOT_STARTED, <<>>, <<3>>, now, now, sampleLabels4, 0),
       Task(5, sampleTitle5, <<sampleDescription5>>, NOT_STARTED, <<>>, <<>>,  now, now, sampleLabels5, 0),
       Task(6, sampleTitle6, <<sampleDescription6>>, NOT_STARTED, <<>>, <<5>>, now, now, sampleLabels6, 0),
       Task(7, sampleTitle7, <<sampleDescription7>>, NOT_STARTED, <<>>, <<6>>, now, now, sampleLabels7, 0) >>

(***************************************************************************)
(* BrowserStorageService: the stored collection.                           *)
(***************************************************************************)
storageKey == "task_management_tasks"

\* JSON.stringify of one task: a property whose value is undefined is left
\* out of the text, a Date becomes its ISO-8601 text (millisecond instant).
stringifyTask(task) ==
    [ id |-> task.id, title |-> task.title, description |-> task.description,
      status |-> task.status,
      deadline |-> IF task.deadline = <<>> THEN <<>> ELSE <<task.deadline[1]>>,
      parent_id |-> IF task.parent_id = <<>> THEN <<>> ELSE <<task.parent_id[1]>>,
      created_at |-> task.created_at, updated_at |-> task.updated_at,
      labels |-> task.labels, priority |-> task.priority ]

\* getTasks: [] when nothing is stored; otherwise every stored object with
\* its dates rebuilt (deadline only when the stored property is truthy).
getTasksOf(store) ==
    LET stored == store[storageKey]
    IN  IF stored = <<>> THEN <<>>
        ELSE [ i \in 1..Len(stored[1]) |->
                 LET task == stored[1][i]
                 IN  [ task EXCEPT !.deadline =
                         IF task.deadline # <<>> THEN <<task.deadline[1]>> ELSE <<>> ] ]

getTasks == getTasksOf(localStorage)

\* saveTasks: the item becomes the JSON text of the array.
saveTasks(store, tasks) ==
    [ store EXCEPT ![storageKey] = << [ i \in 1..Len(tasks) |-> stringifyTask(tasks[i]) ] >> ]

\* createTask: the id is the clock reading; defaults by `||`; no check of
\* parent_id, of priority or of an id already in use.
createTask(store, taskData, now) ==
    LET tasks == getTasksOf(store)
        newTask == Task(now,
                        taskData.title,
                        << OrElse(taskData.description, <<>>, <<>>) >>,
                        OrElse(taskData.status, <<>>, NOT_STARTED),
                        taskData.deadline,
                        taskData.parent_id,
                        now, now,
                        IF taskData.labels = <<>> THEN <<>> ELSE taskData.labels[1],
                        OrElse(taskData.priority, 0, 0))
    IN  [ store |-> saveTasks(store, Append(tasks, newTask)), ret |-> newTask ]

\* getTask: the first task with the id, or null.
getTask(store, id) ==
    LET tasks == getTasksOf(store)
        index == findIndex(tasks, LAMBDA task : task.id = id)
    IN  IF index = 0 THEN <<>> ELSE << tasks[index] >>

\* {...task, ...taskData, updated_at}: every own property of taskData,
\* one whose value is undefined included, replaces the task's.
mergeTask(task, taskData, now) ==
    LET pick(f, old) == IF f \in DOMAIN taskData THEN taskData[f] ELSE old
    IN  Task(task.id,
             pick("title", task.title),
             pick("description", task.description),
             pick("status", task.status),
             pick("deadline", task.deadline),
             pick("parent_id", task.parent_id),
             task.created_at,
             now,
             pick("labels", task.labels),
             pick("priority", task.priority))

\* updateTask: null (and no write) when the id is absent.
updateTask(store, id, taskData, now) ==
    LET tasks == getTasksOf(store)
        taskIndex == findIndex(tasks, LAMBDA task : task.id = id)
        updated == [ tasks EXCEPT ![taskIndex] = mergeTask(tasks[taskIndex], taskData, now) ]
    IN  IF taskIndex = 0
        THEN [ store |-> store, ret |-> <<>> ]
        ELSE [ store |-> saveTasks(store, updated), ret |-> << updated[taskIndex] >> ]

\* A deleteTask that removes the children of the task but not what is below them.
removeChildrenShallow(tasks, children) ==
    SelectSeq(tasks, LAMBDA t : t.id \notin { c.id : c \in Range(children) })

\* removeTaskAndDescendants of deleteTask, on the array it mutates.
RECURSIVE removeTaskAndDescendants(_, _)
RECURSIVE removeEach(_, _, _)
RECURSIVE removeChildren(_, _)
removeChildren(tasks, children) ==
    IF children = <<>> THEN tasks
    ELSE removeChildren(removeTaskAndDescendants(tasks, Head(children).id), Tail(children))

removeEach(tasks, toRemove, taskId) ==
    IF toRemove = <<>> THEN tasks
    ELSE LET task == Head(toRemove)
             index == findIndex(tasks, LAMBDA t : t.id = task.id)
             spliced == IF index # 0 THEN splice1(tasks, index) ELSE tasks
             children == SelectSeq(spliced, LAMBDA t : t.parent_id = <<taskId>>)
         IN  removeEach(removeChildren(spliced, children), Tail(toRemove), taskId)

removeTaskAndDescendants(tasks, taskId) ==
    removeEach(tasks, SelectSeq(tasks, LAMBDA task : task.id = taskId), taskId)

\* deleteTask: always writes the array back; true iff it got shorter.
deleteTask(store, id) ==
    LET tasks == getTasksOf(store)
        remaining == removeTaskAndDescendants(tasks, id)
    IN  [ store |-> saveTasks(store, remaining), ret |-> Len(remaining) < Len(tasks) ]

\* An initializeSchema that writes the sample data whatever is stored.
initializeSchemaAlways(store, now) == saveTasks(store, sampleTasks(now))

\* initializeSchema: the sample data, only when no task is stored.
initializeSchema(store, now) ==
    IF Len(getTasksOf(store)) = 0 THEN saveTasks(store, sampleTasks(now)) ELSE store

(***************************************************************************)
(* The parent graph of a task list, independently of the code above.       *)
(***************************************************************************)
Ids(tasks) == { t.id : t \in Range(tasks) }

\* The ids of S and of every task reachable from S by parent_id edges, downward.
RECURSIVE Reachable(_, _)
Reachable(tasks, S) ==
    LET more == S \cup { t.id : t \in { u \in Range(tasks) : u.parent_id # <<>> /\ u.parent_id[1] \in S } }
    IN  IF more = S THEN S ELSE Reachable(tasks, more)

\* The ids of the tasks below `id`: its children, their children, ...
Descendants(tasks, id) ==
    LET children == { t.id : t \in { u \in Range(tasks) : u.parent_id = <<id>> } }
    IN  Reachable(tasks, children)

IsAcyclic(tasks) == \A t \in Range(tasks) : t.id \notin Descendants(tasks, t.id)

(***************************************************************************)
(* SupabaseStorageService over the PostgreSQL table `tasks` of the Supabase*)
(* schema: id SERIAL PRIMARY KEY, status and priority CHECKs, parent_id     *)
(* REFERENCES tasks(id) ON DELETE CASCADE, a BEFORE UPDATE trigger that     *)
(* sets updated_at.  A row has the Task properties with null for undefined  *)
(* (null is <<>> too).  A supabase-js call returns {data, error} and never  *)
(* throws.                                                                 *)
(***************************************************************************)
fromSupabaseTask(row) ==
    [ row EXCEPT !.description = IF row.description = <<>> \/ row.description[1] = <<>>
                                 THEN <<>> ELSE row.description,
                 !.parent_id = IF row.parent_id = <<>> \/ row.parent_id[1] = 0
                               THEN <<>> ELSE row.parent_id ]

\* getAllTasks: select('*')
tableTasks(rows) == [ i \in 1..Len(rows) |-> fromSupabaseTask(rows[i]) ]

\* The schema's sample rows, inserted when the schema is set up on an empty
\* table; their ids are drawn from the sequence.
schemaSampleRows(now) == sampleTasks(now)

\* The answers the service can give to select('count').limit(1): an error,
\* one row that holds the count, or, for an empty table only, no row.
SchemaAnswers(rows) ==
    {"error", "count row"} \cup (IF rows = <<>> THEN {"no row"} ELSE {})

\* initializeSchema: returns on an error; inserts the sample rows, with
\* their ids 1 to 7, when the answer holds no row.
sbInitializeSchema(rows, answer, now) ==
    IF answer = "no row" THEN rows \o sampleTasks(now) ELSE rows

\* The constraints a row must meet to be inserted or updated into `rows`.
rowAccepted(rows, row) ==
    /\ row.status \in TaskStatus
    /\ row.priority >= 0 /\ row.priority <= 5
    /\ Len(row.title) <= 255
    /\ row.parent_id = <<>> \/ row.parent_id[1] \in Ids(rows) \cup {row.id}

\* DELETE ... WHERE id = taskId, with ON DELETE CASCADE.
deleteRow(rows, taskId) ==
    IF taskId \in Ids(rows)
    THEN SelectSeq(rows, LAMBDA r : r.id \notin Reachable(rows, {taskId}))
    ELSE rows

\* createTask: throws when the insert returns an error.  The sequence value
\* is consumed either way.
sbCreateTask(rows, seq, taskData, now) ==
    LET row == Task(seq,
                    taskData.title,
                    IF taskData.description = <<>> \/ taskData.description[1] = <<>>
                    THEN <<>> ELSE taskData.description,
                    OrElse(taskData.status, <<>>, NOT_STARTED),
                    taskData.deadline,
                    IF taskData.parent_id = <<>> \/ taskData.parent_id[1] = 0
                    THEN <<>> ELSE taskData.parent_id,
                    now, now,
                    IF taskData.labels = <<>> THEN <<>> ELSE taskData.labels[1],
                    OrElse(taskData.priority, 0, 0))
        error == seq \in Ids(rows) \/ ~rowAccepted(rows, row)
    IN  [ table |-> IF error THEN rows ELSE Append(rows, row),
          sequence |-> seq + 1,
          threw |-> error,
          ret |-> IF error THEN <<>> ELSE << fromSupabaseTask(row) >> ]

\* getTask: .single() gives an error unless exactly one row matches.
sbGetTask(rows, id) ==
    LET index == findIndex(rows, LAMBDA r : r.id = id)
    IN  IF index = 0 THEN <<>> ELSE << fromSupabaseTask(rows[index]) >>

\* updateTask: only the properties that are not undefined are sent; null on
\* any error (no row with the id, or a constraint rejects the update).
sbUpdateTask(rows, id, taskData, now) ==
    LET index == findIndex(rows, LAMBDA r : r.id = id)
        sent(f) == f \in DOMAIN taskData
                   /\ ~(f \in {"description", "deadline", "parent_id"} /\ taskData[f] = <<>>)
        old == rows[index]
        row == Task(old.id,
                    IF sent("title") THEN taskData.title ELSE old.title,
                    IF sent("description")
                    THEN (IF taskData.description[1] = <<>> THEN <<>> ELSE taskData.description)
                    ELSE old.description,
                    IF sent("status") THEN taskData.status ELSE old.status,
                    IF sent("deadline") THEN taskData.deadline ELSE old.deadline,
                    IF sent("parent_id")
                    THEN (IF taskData.parent_id[1] = 0 THEN <<>> ELSE taskData.parent_id)
                    ELSE old.parent_id,
                    old.created_at,
                    now,
                    IF sent("labels") THEN taskData.labels ELSE old.labels,
                    IF sent("priority") THEN taskData.priority ELSE old.priority)
    IN  IF index = 0 \/ ~rowAccepted(rows, row)
        THEN [ table |-> rows, ret |-> <<>> ]
        ELSE [ table |-> [ rows EXCEPT ![index] = row ], ret |-> << fromSupabaseTask(row) >> ]

\* deleteTaskAndChildren.  `path` is the set of ids whose calls are pending
\* on the stack: none of them is deleted before its call ends, so reaching
\* one of them again means the recursion never ends (returned = FALSE).
RECURSIVE deleteTaskAndChildren(_, _, _)
RECURSIVE deleteChildren(_, _, _)
deleteChildren(rows, children, path) ==
    IF children = <<>> THEN [ table |-> rows, returned |-> TRUE ]
    ELSE LET r == deleteTaskAndChildren(rows, Head(children).id, path)
         IN  IF r.returned THEN deleteChildren(r.table, Tail(children), path) ELSE r

deleteTaskAndChildren(rows, taskId, path) ==
    IF taskId \in path THEN [ table |-> rows, returned |-> FALSE ]
    ELSE LET children == SelectSeq(rows, LAMBDA r : r.parent_id = <<taskId>>)
             r == deleteChildren(rows, children, path \cup {taskId})
         IN  IF r.returned
             THEN [ table |-> deleteRow(r.table, taskId), returned |-> TRUE ]
             ELSE r

\* deleteTask: true whenever deleteTaskAndChildren returns.
sbDeleteTask(rows, id) ==
    LET r == deleteTaskAndChildren(rows, id, {})
    IN  [ table |-> r.table, returned |-> r.returned, ret |-> TRUE ]

\* deleteTask when the service rejects requests.  A supabase-js request that
\* is rejected resolves to {data: null, error}; it does not throw.  `fails`
\* names the ids whose select of children and whose delete are rejected;
\* `rejected` counts the rejected requests that were made.
RECURSIVE deleteTaskAndChildrenUnder(_, _, _, _)
RECURSIVE deleteChildrenUnder(_, _, _, _, _)
deleteChildrenUnder(rows, children, path, fails, rejected) ==
    IF children = <<>> THEN [ table |-> rows, returned |-> TRUE, rejected |-> rejected ]
    ELSE \* the recursive call, then the rest of the loop
         (LET r == deleteTaskAndChildrenUnder(rows, Head(children).id, path, fails)
          IN  IF r.returned
              THEN deleteChildrenUnder(r.table, Tail(children), path, fails, rejected + r.rejected)
              ELSE r)

deleteTaskAndChildrenUnder(rows, taskId, path, fails) ==
    IF taskId \in path THEN [ table |-> rows, returned |-> FALSE, rejected |-> 0 ]
    ELSE LET children == IF taskId \in fails.select THEN <<>>
                         ELSE SelectSeq(rows, LAMBDA r : r.parent_id = <<taskId>>)
             r == deleteChildrenUnder(rows, children, path \cup {taskId}, fails,
                                      IF taskId \in fails.select THEN 1 ELSE 0)
         IN  IF ~r.returned THEN r
             ELSE IF taskId \in fails.delete
             THEN [ r EXCEPT !.rejected = @ + 1 ]
             ELSE [ r EXCEPT !.table = deleteRow(@, taskId) ]

sbDeleteTaskUnder(rows, id, fails) ==
    LET r == deleteTaskAndChildrenUnder(rows, id, {}, fails)
    IN  [ table |-> r.table, returned |-> r.returned, rejected |-> r.rejected, ret |-> TRUE ]

(***************************************************************************)
(* Text: the String and Date functions the export and import code uses.    *)
(***************************************************************************)
Comma == 44
Quote == 34
Semicolon == 59
Space == 32
LineFeed == 10
Star == 42
Hyphen == 45
Digit0 == 48

\* String.prototype.toLowerCase on the code units A-Z.
toLowerCase(str) ==
    [ i \in 1..Len(str) |-> IF str[i] >= 65 /\ str[i] <= 90 THEN str[i] + 32 ELSE str[i] ]

\* String.prototype.split on a one-unit separator.
RECURSIVE split(_, _)
split(str, sep) ==
    LET hits == { i \in 1..Len(str) : str[i] = sep }
    IN  IF hits = {} THEN << str >>
        ELSE LET i == CHOOSE k \in hits : \A j \in hits : k <= j
             IN  << SubSeq(str, 1, i - 1) >> \o split(SubSeq(str, i + 1, Len(str)), sep)

\* Array.prototype.join
RECURSIVE join(_, _)
join(parts, sep) ==
    IF parts = <<>> THEN <<>>
    ELSE IF Len(parts) = 1 THEN parts[1]
    ELSE parts[1] \o sep \o join(Tail(parts), sep)

\* str.replace(/"/g, '""')
RECURSIVE doubleQuotes(_)
doubleQuotes(str) ==
    IF str = <<>> THEN <<>>
    ELSE (IF Head(str) = Quote THEN <<Quote, Quote>> ELSE <<Head(str)>>) \o doubleQuotes(Tail(str))

\* str.replace(/"/g, '')
stripQuotes(str) == SelectSeq(str, LAMBDA c : c # Quote)

\* String.prototype.trim, for the white space of the texts here.
RECURSIVE trim(_)
trim(str) ==
    IF str = <<>> THEN <<>>
    ELSE IF Head(str) \in {Space, LineFeed} THEN trim(Tail(str))
    ELSE IF str[Len(str)] \in {Space, LineFeed} THEN trim(SubSeq(str, 1, Len(str) - 1))
    ELSE str

\* String(n) for a non-negative integer.
RECURSIVE numberToString(_)
numberToString(n) ==
    IF n < 10 THEN << Digit0 + n >>
    ELSE numberToString(n \div 10) \o << Digit0 + (n % 10) >>

isDigit(c) == c >= Digit0 /\ c <= Digit0 + 9

\* The value of a text made of digits only.
RECURSIVE digitsValue(_)
digitsValue(str) ==
    IF str = <<>> THEN 0
    ELSE 10 * digitsValue(SubSeq(str, 1, Len(str) - 1)) + (str[Len(str)] - Digit0)

\* parseInt: the leading digits (after white space); <<>> stands for NaN.
parseInt(str) ==
    LET t == trim(str)
        stops == { i \in 1..Len(t) : ~isDigit(t[i]) }
        n == IF stops = {} THEN Len(t) ELSE (CHOOSE i \in stops : \A j \in stops : i <= j) - 1
    IN  IF n = 0 THEN <<>> ELSE << digitsValue(SubSeq(t, 1, n)) >>

\* n as text of `width` digits, zero-padded.
RECURSIVE padded(_, _)
padded(n, width) ==
    IF width = 0 THEN <<>> ELSE padded(n \div 10, width - 1) \o << Digit0 + (n % 10) >>

\* '1970-01-01T00:00:'
IsoMinutePrefix == <<49, 57, 55, 48, 45, 48, 49, 45, 48, 49, 84, 48, 48, 58, 48, 48, 58>>
MsPerSecond == 1000

\* Date.prototype.toISOString for an instant of the first minute after the
\* epoch: '1970-01-01T00:00:SS.mmmZ'.
toISOString(instant) ==
    IsoMinutePrefix \o padded(instant \div MsPerSecond, 2) \o <<46>>
                    \o padded(instant % MsPerSecond, 3) \o <<90>>

\* new Date(text) for such a text; <<>> stands for an Invalid Date.
parseDate(text) ==
    LET n == Len(IsoMinutePrefix)
    IN  IF /\ Len(text) = n + 7
           /\ SubSeq(text, 1, n) = IsoMinutePrefix
           /\ text[n + 3] = 46 /\ text[n + 7] = 90
           /\ \A i \in {1, 2, 4, 5, 6} : isDigit(text[n + i])
        THEN << MsPerSecond * digitsValue(SubSeq(text, n + 1, n + 2))
                + digitsValue(SubSeq(text, n + 4, n + 6)) >>
        ELSE <<>>

(***************************************************************************)
(* ExportImport: files.  A file has an extension and a content.  A JSON    *)
(* content is kept as the value JSON.parse gives for it (`json`): its kind *)
(* ("unparseable" when JSON.parse throws) and, for an array, its items,    *)
(* each a record of optional properties in which a date is its ISO text.   *)
(* A CSV or Markdown content is its text (`text`).                         *)
(***************************************************************************)
NoJson == [ kind |-> "none", items |-> <<>> ]
File(extension, json, text) == [ extension |-> extension, json |-> json, text |-> text ]

\* JSON.parse(JSON.stringify(task)): a Date becomes its ISO text, a property
\* whose value is undefined is left out.
jsonOfTask(task) ==
    [ id |-> << task.id >>,
      title |-> << task.title >>,
      description |-> task.description,
      status |-> << task.status >>,
      deadline |-> IF task.deadline # <<>> THEN << toISOString(task.deadline[1]) >> ELSE <<>>,
      parent_id |-> task.parent_id,
      created_at |-> << toISOString(task.created_at) >>,
      updated_at |-> << toISOString(task.updated_at) >>,
      labels |-> << task.labels >>,
      priority |-> << task.priority >> ]

\* 'Title', 'Description', 'Status', 'Deadline', 'Parent ID', 'Labels', 'Priority'
csvHeaders ==
    << <<84, 105, 116, 108, 101>>,
       <<68, 101, 115, 99, 114, 105, 112, 116, 105, 111, 110>>,
       <<83, 116, 97, 116, 117, 115>>,
       <<68, 101, 97, 100, 108, 105, 110, 101>>,
       <<80, 97, 114, 101, 110, 116, 32, 73, 68>>,
       <<76, 97, 98, 101, 108, 115>>,
       <<80, 114, 105, 111, 114, 105, 116, 121>> >>

\* One row of convertToCSV: each field between quotes, its quotes doubled.
csvRow(fields) ==
    join([ i \in 1..Len(fields) |-> <<Quote>> \o doubleQuotes(fields[i]) \o <<Quote>> ], <<Comma>>)

convertToCSV(taskList) ==
    LET row(task) ==
            << task.title,
               OrElse(task.description, <<>>, <<>>),
               task.status,
               IF task.deadline # <<>> THEN toISOString(task.deadline[1]) ELSE <<>>,
               IF task.parent_id # <<>> /\ task.parent_id[1] # 0
               THEN numberToString(task.parent_id[1]) ELSE <<>>,
               join(task.labels, <<Semicolon>>),
               numberToString(task.priority) >>
    IN  join(<< csvRow(csvHeaders) >> \o [ i \in 1..Len(taskList) |-> csvRow(row(taskList[i])) ],
             <<LineFeed>>)

\* The value parseCSV reads for the column named `name` (in lower case):
\* <<>> when no header has the name or the line has no such column.
csvValue(headers, values, name) ==
    LET cols == { i \in 1..Len(headers) : toLowerCase(headers[i]) = name }
        col == CHOOSE i \in cols : \A j \in cols : j <= i
    IN  IF cols = {} \/ col > Len(values) THEN <<>> ELSE << values[col] >>

hasColumn(headers, name) == \E i \in 1..Len(headers) : toLowerCase(headers[i]) = name

\* The task parseCSV builds from one line.  A deadline is kept as its text
\* (new Date(new Date(text)) is new Date(text)).
csvTask(headers, values) ==
    LET value(name) == csvValue(headers, values, toLowerCase(name))
        truthy(v) == v # <<>> /\ v[1] # <<>>
    IN  [ id |-> <<>>,
          title |-> value(csvHeaders[1]),
          description |-> value(csvHeaders[2]),
          status |-> value(csvHeaders[3]),
          deadline |-> IF truthy(value(csvHeaders[4])) THEN value(csvHeaders[4]) ELSE <<>>,
          parent_id |-> IF truthy(value(csvHeaders[5])) THEN parseInt(value(csvHeaders[5])[1]) ELSE <<>>,
          created_at |-> <<>>,
          updated_at |-> <<>>,
          labels |-> IF ~hasColumn(headers, toLowerCase(csvHeaders[6])) THEN <<>>
                     ELSE IF truthy(value(csvHeaders[6]))
                          THEN << split(value(csvHeaders[6])[1], Semicolon) >>
                          ELSE << <<>> >>,
          priority |-> IF ~hasColumn(headers, toLowerCase(csvHeaders[7])) THEN <<>>
                       ELSE IF value(csvHeaders[7]) = <<>> THEN <<0>>
                            ELSE << OrElse(parseInt(value(csvHeaders[7])[1]), 0, 0) >> ]

\* parseCSV: lines by '\n', columns by ',', every quote removed; a line
\* that is blank or gives no title is skipped.
parseCSV(content) ==
    LET lines == split(content, LineFeed)
        columns(line) == LET parts == split(line, Comma)
                         IN  [ i \in 1..Len(parts) |-> stripQuotes(parts[i]) ]
        headers == columns(lines[1])
        parsed == [ i \in 1..(Len(lines) - 1) |-> csvTask(headers, columns(lines[i + 1])) ]
        kept == { i \in 1..(Len(lines) - 1) :
                    /\ trim(lines[i + 1]) # <<>>
                    /\ parsed[i].title # <<>> /\ parsed[i].title[1] # <<>> }
        rows == SelectSeq([ i \in 1..(Len(lines) - 1) |-> [ index |-> i, task |-> parsed[i] ] ],
                          LAMBDA e : e.index \in kept)
    IN  [ i \in 1..Len(rows) |-> rows[i].task ]

\* The status marks of the Markdown export: hourglass, arrows, check mark.
statusEmoji(status) ==
    IF status = NOT_STARTED THEN <<9203>>
    ELSE IF status = IN_PROGRESS THEN <<55357, 56580>>
    ELSE <<9989>>

\* '# Task Export', 'Generated on: ', '*Labels: ', '*Deadline: '
mdTitleLine == <<35, 32, 84, 97, 115, 107, 32, 69, 120, 112, 111, 114, 116>>
mdGeneratedOn == <<71, 101, 110, 101, 114, 97, 116, 101, 100, 32, 111, 110, 58, 32>>
mdLabels == <<42, 76, 97, 98, 101, 108, 115, 58, 32>>
mdDeadline == <<42, 68, 101, 97, 100, 108, 105, 110, 101, 58, 32>>

indentOf(level) == [ i \in 1..(2 * level) |-> Space ]

\* formatTask of convertToMarkdown: the bullet of the task, its optional
\* sub-lines, then the tasks whose parent_id is its id, one level deeper.
\* The locale's rendering of a date is written as the ISO text.
RECURSIVE formatTask(_, _, _, _)
RECURSIVE formatTasks(_, _, _, _)
formatTasks(taskList, children, level, options) ==
    IF children = <<>> THEN <<>>
    ELSE formatTask(taskList, Head(children), level, options)
         \o formatTasks(taskList, Tail(children), level, options)

formatTask(taskList, task, level, options) ==
    LET indent == indentOf(level)
        bullet == indent \o <<Hyphen, Space>> \o statusEmoji(task.status) \o <<Space, Star, Star>>
                    \o task.title \o <<Star, Star>>
        description ==
            IF options.includeDescription /\ task.description # <<>> /\ task.description[1] # <<>>
            THEN <<LineFeed>> \o indent \o <<Space, Space>> \o task.description[1] ELSE <<>>
        labels ==
            IF options.includeLabels /\ Len(task.labels) > 0
            THEN <<LineFeed>> \o indent \o <<Space, Space>> \o mdLabels
                   \o join(task.labels, <<Comma, Space>>) \o <<Star>> ELSE <<>>
        deadline ==
            IF task.deadline # <<>>
            THEN <<LineFeed>> \o indent \o <<Space, Space>> \o mdDeadline
                   \o toISOString(task.deadline[1]) \o <<Star>> ELSE <<>>
        children == SelectSeq(taskList, LAMBDA t : t.parent_id = << task.id >>)
    IN  bullet \o description \o labels \o deadline \o <<LineFeed>>
          \o formatTasks(taskList, children, level + 1, options)

convertToMarkdown(taskList, options, now) ==
    LET rootTasks == SelectSeq(taskList, LAMBDA task : task.parent_id = <<>> \/ task.parent_id[1] = 0)
    IN  mdTitleLine \o <<LineFeed, LineFeed>> \o mdGeneratedOn \o toISOString(now)
          \o <<LineFeed, LineFeed>> \o formatTasks(taskList, rootTasks, 0, options)

\* The bullet pattern of parseMarkdown (white space, '- ', at least one more
\* unit): the length of the indent, and the rest of the line.
bulletMatch(line) ==
    LET marks == { i \in 1..Len(line) : line[i] # Space }
        first == CHOOSE i \in marks : \A j \in marks : i <= j
    IN  IF marks # {} /\ line[first] = Hyphen /\ first + 2 <= Len(line) /\ line[first + 1] = Space
        THEN << [ indent |-> first - 1, content |-> SubSeq(line, first + 2, Len(line)) ] >>
        ELSE <<>>

\* The status pattern of parseMarkdown (a status mark, white space, a title
\* between two pairs of stars): the status and the shortest such title.
statusMatch(content) ==
    LET marked == { st \in TaskStatus :
                      /\ Len(content) >= Len(statusEmoji(st))
                      /\ SubSeq(content, 1, Len(statusEmoji(st))) = statusEmoji(st) }
        status == CHOOSE st \in marked : TRUE
        rest == SubSeq(content, Len(statusEmoji(status)) + 1, Len(content))
        spaces == { i \in 0..Len(rest) : \A j \in 1..i : rest[j] = Space }
        skip == CHOOSE i \in spaces : \A j \in spaces : j <= i
        body == SubSeq(rest, skip + 1, Len(rest))
        ends == { n \in 1..(Len(body) - 4) : body[n + 3] = Star /\ body[n + 4] = Star }
        n == CHOOSE k \in ends : \A j \in ends : k <= j
    IN  IF marked # {} /\ Len(body) >= 5 /\ body[1] = Star /\ body[2] = Star /\ ends # {}
        THEN << [ status |-> status, title |-> SubSeq(body, 3, n + 2) ] >>
        ELSE <<>>

\* parseMarkdown: a task per bullet; `stack` holds the levels taskStack
\* holds.  Every task on the stack has id 0, so a bullet below another one
\* gets parent_id 0.
RECURSIVE parseLines(_, _)
parseLines(lines, stack) ==
    IF lines = <<>> THEN <<>>
    ELSE LET bullet == bulletMatch(Head(lines))
             match == IF bullet = <<>> THEN <<>> ELSE statusMatch(bullet[1].content)
         IN  IF match = <<>> THEN parseLines(Tail(lines), stack)
             ELSE LET level == bullet[1].indent
                      below == { i \in 1..Len(stack) : stack[i] < level }
                      top == IF below = {} THEN 0 ELSE CHOOSE i \in below : \A j \in below : j <= i
                      popped == SubSeq(stack, 1, top)
                      task == [ id |-> <<0>>,
                                title |-> << match[1].title >>,
                                description |-> << <<>> >>,
                                status |-> << match[1].status >>,
                                deadline |-> <<>>,
                                parent_id |-> IF Len(popped) > 0 THEN <<0>> ELSE <<>>,
                                created_at |-> <<>>,
                                updated_at |-> <<>>,
                                labels |-> << <<>> >>,
                                priority |-> <<0>> ]
                  IN  << task >> \o parseLines(Tail(lines), Append(popped, level))

parseMarkdown(content) == parseLines(split(content, LineFeed), <<>>)

(***************************************************************************)
(* ExportImport.exportTasks: the tasks exported and the file downloaded.   *)
(***************************************************************************)
filteredTasks(taskList, options) ==
    IF options.includeCompleted THEN taskList
    ELSE SelectSeq(taskList, LAMBDA task : task.status # DONE)

exportTasks(taskList, options, now) ==
    LET filtered == filteredTasks(taskList, options)
    IN  IF options.format = "json"
        THEN File("json", [ kind |-> "array",
                            items |-> [ i \in 1..Len(filtered) |-> jsonOfTask(filtered[i]) ] ], <<>>)
        ELSE IF options.format = "csv"
        THEN File("csv", NoJson, convertToCSV(filtered))
        ELSE File("md", NoJson, convertToMarkdown(filtered, options, now))

(***************************************************************************)
(* ExportImport.importTasks.                                               *)
(***************************************************************************)
\* What the switch on the extension and the filter call make of the file:
\* the decoded records, or an exception (JSON.parse throws on a text that
\* is not JSON, tasks.filter on a value that is not an array, the default
\* case on an unknown extension).
decodeLenient(file) ==
    IF file.extension = "json"
    THEN [ threw |-> file.json.kind = "unparseable", tasks |-> file.json.items ]
    ELSE IF file.extension = "csv" THEN [ threw |-> FALSE, tasks |-> parseCSV(file.text) ]
    ELSE IF file.extension = "md" THEN [ threw |-> FALSE, tasks |-> parseMarkdown(file.text) ]
    ELSE [ threw |-> TRUE, tasks |-> <<>> ]

decode(file) ==
    IF file.extension = "json"
    THEN (IF file.json.kind = "array"
          THEN [ threw |-> FALSE, tasks |-> file.json.items ]
          ELSE [ threw |-> TRUE, tasks |-> <<>> ])
    ELSE IF file.extension = "csv" THEN [ threw |-> FALSE, tasks |-> parseCSV(file.text) ]
    ELSE IF file.extension = "md" THEN [ threw |-> FALSE, tasks |-> parseMarkdown(file.text) ]
    ELSE [ threw |-> TRUE, tasks |-> <<>> ]

validTask(task) ==
    /\ task.title # <<>> /\ task.title[1] # <<>>
    /\ task.status # <<>> /\ task.status[1] \in TaskStatus

\* The createTask argument importTasks builds from a decoded record.  An
\* Invalid Date is stored as null and read back as undefined.
importData(task) ==
    [ title |-> task.title[1],
      description |-> task.description,
      status |-> task.status,
      deadline |-> IF task.deadline # <<>> /\ task.deadline[1] # <<>>
                   THEN parseDate(task.deadline[1]) ELSE <<>>,
      parent_id |-> task.parent_id,
      labels |-> << IF task.labels = <<>> THEN <<>> ELSE task.labels[1] >>,
      priority |-> << OrElse(task.priority, 0, 0) >> ]

\* The error importTasks lists for a create that threw.
importError(task) == [ message |-> "Failed to import task", title |-> task.title[1] ]

\* The loop over validTasks on browser storage, whose createTask does not
\* throw; ticks[i] is the time that passes before the i-th create is issued.
RECURSIVE importLoop(_, _, _, _, _)
importLoop(store, validTasks, ticks, now, importedCount) ==
    IF validTasks = <<>>
    THEN [ store |-> store, now |-> now,
           result |-> [ success |-> TRUE, importedCount |-> importedCount, errors |-> <<>> ] ]
    ELSE importLoop(createTask(store, importData(Head(validTasks)), now + Head(ticks)).store,
                    Tail(validTasks), Tail(ticks), now + Head(ticks), importedCount + 1)

importTasks(store, file, ticks, now) ==
    LET decoded == decode(file)
    IN  IF decoded.threw
        THEN [ store |-> store, now |-> now,
               result |-> [ success |-> FALSE, importedCount |-> 0,
                            errors |-> << [ message |-> "Import failed" ] >> ] ]
        ELSE importLoop(store, SelectSeq(decoded.tasks, validTask), ticks, now, 0)

\* An import loop that gives up at the first create that throws.
RECURSIVE sbImportLoopStopping(_, _, _, _, _)
sbImportLoopStopping(rows, seq, validTasks, now, result) ==
    IF validTasks = <<>>
    THEN [ table |-> rows, sequence |-> seq, result |-> result ]
    ELSE LET r == sbCreateTask(rows, seq, importData(Head(validTasks)), now)
         IN  IF r.threw
             THEN [ table |-> r.table, sequence |-> r.sequence,
                    result |-> [ result EXCEPT !.errors = Append(@, importError(Head(validTasks))) ] ]
             ELSE sbImportLoopStopping(r.table, r.sequence, Tail(validTasks), now,
                                       [ result EXCEPT !.importedCount = @ + 1 ])

\* The loop over validTasks on Supabase: a create that throws adds an error
\* and the loop goes on.
RECURSIVE sbImportLoop(_, _, _, _, _)
sbImportLoop(rows, seq, validTasks, now, result) ==
    IF validTasks = <<>>
    THEN [ table |-> rows, sequence |-> seq, result |-> result ]
    ELSE LET r == sbCreateTask(rows, seq, importData(Head(validTasks)), now)
         IN  sbImportLoop(r.table, r.sequence, Tail(validTasks), now,
                          IF r.threw
                          THEN [ result EXCEPT !.errors = Append(@, importError(Head(validTasks))) ]
                          ELSE [ result EXCEPT !.importedCount = @ + 1 ])

sbImportTasks(rows, seq, file, now) ==
    LET decoded == decode(file)
    IN  IF decoded.threw
        THEN [ table |-> rows, sequence |-> seq,
               result |-> [ success |-> FALSE, importedCount |-> 0,
                            errors |-> << [ message |-> "Import failed" ] >> ] ]
        ELSE sbImportLoop(rows, seq, SelectSeq(decoded.tasks, validTask), now,
                          [ success |-> TRUE, importedCount |-> 0, errors |-> <<>> ])

(***************************************************************************)
(* getTasksWithFilters.  TaskFilters is a record of optional properties;   *)
(* deadlineRange, when present, is a record of optional start and end.     *)
(***************************************************************************)
\* String.prototype.includes
includes(str, search) ==
    \E i \in 0..(Len(str) - Len(search)) : SubSeq(str, i + 1, i + Len(search)) = search

\* a < b on strings: by code units, a proper prefix first.
RECURSIVE stringLess(_, _)
stringLess(a, b) ==
    IF b = <<>> THEN FALSE
    ELSE IF a = <<>> THEN TRUE
    ELSE IF Head(a) # Head(b) THEN Head(a) < Head(b)
    ELSE stringLess(Tail(a), Tail(b))

filterStatus(taskList, f) ==
    IF f.status # <<>> /\ Len(f.status[1]) > 0
    THEN SelectSeq(taskList, LAMBDA task : task.status \in Range(f.status[1]))
    ELSE taskList

filterLabels(taskList, f) ==
    IF f.labels # <<>> /\ Len(f.labels[1]) > 0
    THEN SelectSeq(taskList, LAMBDA task : \E label \in Range(task.labels) : label \in Range(f.labels[1]))
    ELSE taskList

filterPriority(taskList, f) ==
    IF f.priority # <<>> /\ Len(f.priority[1]) > 0
    THEN SelectSeq(taskList, LAMBDA task : task.priority \in Range(f.priority[1]))
    ELSE taskList

filterDeadlineRange(taskList, f) ==
    IF f.deadlineRange = <<>> THEN taskList
    ELSE LET range == f.deadlineRange[1]
             fromStart == IF range.start # <<>>
                          THEN SelectSeq(taskList, LAMBDA task :
                                   task.deadline # <<>> /\ task.deadline[1] >= range.start[1])
                          ELSE taskList
         IN  IF range.end # <<>>
             THEN SelectSeq(fromStart, LAMBDA task :
                      task.deadline # <<>> /\ task.deadline[1] <= range.end[1])
             ELSE fromStart

filterSearchText(taskList, f) ==
    IF f.searchText # <<>> /\ f.searchText[1] # <<>>
    THEN LET searchLower == toLowerCase(f.searchText[1])
         IN  SelectSeq(taskList, LAMBDA task :
                 \/ includes(toLowerCase(task.title), searchLower)
                 \/ /\ task.description # <<>> /\ task.description[1] # <<>>
                    /\ includes(toLowerCase(task.description[1]), searchLower))
    ELSE taskList

\* A query in which a search text takes the place of the other filters.
applyFiltersSearchFirst(taskList, f) ==
    IF f.searchText # <<>> /\ f.searchText[1] # <<>>
    THEN filterSearchText(taskList, f)
    ELSE filterDeadlineRange(filterPriority(filterLabels(filterStatus(taskList, f), f), f), f)

\* The filters of BrowserStorageService.getTasksWithFilters, one after another.
applyFilters(taskList, f) ==
    filterSearchText(
        filterDeadlineRange(
            filterPriority(
                filterLabels(
                    filterStatus(taskList, f), f), f), f), f)

\* The filters of SupabaseStorageService.getTasksWithFilters: status,
\* priority and deadline in the query, labels and search text on its result.
sbApplyFilters(rows, f) ==
    filterSearchText(
        filterLabels(
            tableTasks(filterDeadlineRange(filterPriority(filterStatus(rows, f), f), f)), f), f)

DateFields == {"deadline", "created_at", "updated_at"}
StringFields == {"title", "status"}

\* A comparator value that puts a task without a deadline after every date.
sortValueNoDeadlineLast(task, field) ==
    IF field = "deadline" THEN (IF task.deadline # <<>> THEN task.deadline[1] ELSE 2 * ClockBase)
    ELSE IF field \in StringFields THEN toLowerCase(task[field])
    ELSE task[field]

\* aValue / bValue of the comparator: an instant (0 for no date) for a date
\* field, the lower-cased text for a string, the number otherwise.
sortValue(task, field) ==
    IF field = "deadline" THEN (IF task.deadline # <<>> THEN task.deadline[1] ELSE 0)
    ELSE IF field \in StringFields THEN toLowerCase(task[field])
    ELSE task[field]

valueLess(a, b, field) ==
    IF field \in StringFields THEN stringLess(a, b) ELSE a < b

\* A comparator that ignores the direction.
compareAscending(a, b, sort) ==
    LET aValue == sortValue(a, sort.field)
        bValue == sortValue(b, sort.field)
    IN  IF valueLess(aValue, bValue, sort.field) THEN -1
        ELSE IF valueLess(bValue, aValue, sort.field) THEN 1 ELSE 0

\* The comparator passed to Array.prototype.sort: -1, 0 or 1.
compare(a, b, sort) ==
    LET aValue == sortValue(a, sort.field)
        bValue == sortValue(b, sort.field)
    IN  IF sort.direction = "asc"
        THEN (IF valueLess(aValue, bValue, sort.field) THEN -1
              ELSE IF valueLess(bValue, aValue, sort.field) THEN 1 ELSE 0)
        ELSE (IF valueLess(bValue, aValue, sort.field) THEN -1
              ELSE IF valueLess(aValue, bValue, sort.field) THEN 1 ELSE 0)

\* Array.prototype.sort, which is stable: each element goes after the ones
\* already placed that do not come after it.
RECURSIVE sortFrom(_, _, _)
sortFrom(sorted, rest, sort) ==
    IF rest = <<>> THEN sorted
    ELSE LET x == Head(rest)
             keep == { i \in 1..Len(sorted) : compare(sorted[i], x, sort) <= 0 }
             k == IF keep = {} THEN 0 ELSE CHOOSE i \in keep : \A j \in keep : j <= i
         IN  sortFrom(SubSeq(sorted, 1, k) \o <<x>> \o SubSeq(sorted, k + 1, Len(sorted)),
                      Tail(rest), sort)

sortTasks(taskList, sort) ==
    IF sort = <<>> THEN taskList ELSE sortFrom(<<>>, taskList, sort[1])

getTasksWithFilters(store, f, sort) ==
    sortTasks(applyFilters(getTasksOf(store), f), sort)

sbGetTasksWithFilters(rows, f, sort) ==
    sortTasks(sbApplyFilters(rows, f), sort)

(***************************************************************************)
(* App.buildTaskTree.  A TaskTreeNode is an object shared by the map and   *)
(* by the children array that holds it, so the forest is kept as the ids   *)
(* of the roots and, for each id of the map, the node's children (ids, in  *)
(* push order) and level.                                                  *)
(***************************************************************************)
emptyTree == [ roots |-> <<>>, nodes |-> [ id \in {} |-> <<>> ] ]

\* The second forEach: link each task to its parent or push it as a root.
RECURSIVE buildHierarchy(_, _)
buildHierarchy(taskList, tree) ==
    IF taskList = <<>> THEN tree
    ELSE LET task == Head(taskList)
             linked ==
                 IF task.parent_id # <<>> /\ task.parent_id[1] # 0
                 THEN LET parent == task.parent_id[1]
                      IN  IF parent \in DOMAIN tree.nodes
                          THEN LET pushed == [ tree.nodes EXCEPT ![parent].children = Append(@, task.id) ]
                               IN  [ tree EXCEPT !.nodes =
                                       [ pushed EXCEPT ![task.id].level = pushed[parent].level + 1 ] ]
                          ELSE tree
                 ELSE [ tree EXCEPT !.roots = Append(@, task.id) ]
         IN  buildHierarchy(Tail(taskList), linked)

buildTaskTree(taskList) ==
    buildHierarchy(taskList,
                   [ roots |-> <<>>,
                     nodes |-> [ id \in { t.id : t \in Range(taskList) } |->
                                   [ children |-> <<>>, level |-> 0 ] ] ])

\* Pre-order traversal of a forest: each node, then its children's subtrees.
RECURSIVE flattenFrom(_, _)
flattenFrom(tree, ids) ==
    IF ids = <<>> THEN <<>>
    ELSE <<Head(ids)>> \o flattenFrom(tree, tree.nodes[Head(ids)].children)
                       \o flattenFrom(tree, Tail(ids))

flatten(tree) == flattenFrom(tree, tree.roots)

(***************************************************************************)
(* TaskForm.                                                               *)
(***************************************************************************)
MsPerDay == 86400000

\* new Date(format(deadline, 'yyyy-MM-dd')): the start of the day, in UTC.
dayOf(instant) == instant - (instant % MsPerDay)

\* !t.parent_id
noParent(t) == t.parent_id = <<>> \/ t.parent_id[1] = 0

\* addDescendants of getAvailableParents: the ids it adds to excludeIds.
\* `path` is the set of ids whose calls are pending: reaching one of them
\* again means the recursion never ends (returned = FALSE).
RECURSIVE addDescendants(_, _, _)
addDescendants(allTasks, parentId, path) ==
    IF parentId \in path THEN [ returned |-> FALSE, ids |-> {} ]
    ELSE LET children == { t.id : t \in { u \in Range(allTasks) : u.parent_id = <<parentId>> } }
             below == [ c \in children |-> addDescendants(allTasks, c, path \cup {parentId}) ]
         IN  [ returned |-> \A c \in children : below[c].returned,
               ids |-> children \cup UNION { below[c].ids : c \in children } ]

\* A getAvailableParents that leaves the task itself among the options.
getAvailableParentsWithSelf(task, allTasks) ==
    IF task = <<>>
    THEN [ returned |-> TRUE, options |-> SelectSeq(allTasks, noParent) ]
    ELSE LET found == addDescendants(allTasks, task[1].id, {})
         IN  [ returned |-> found.returned,
               options |-> SelectSeq(allTasks, LAMBDA t : t.id \notin found.ids /\ noParent(t)) ]

\* getAvailableParents: for a new task the tasks without parent; for the
\* task being edited those that are neither the task nor in excludeIds.
getAvailableParents(task, allTasks) ==
    IF task = <<>>
    THEN [ returned |-> TRUE, options |-> SelectSeq(allTasks, noParent) ]
    ELSE LET found == addDescendants(allTasks, task[1].id, {})
         IN  [ returned |-> found.returned,
               options |-> SelectSeq(allTasks, LAMBDA t : t.id \notin {task[1].id} \cup found.ids
                                                           /\ noParent(t)) ]

\* The formData the effect sets when the form is given a task.
formDataOf(task) ==
    [ title |-> task.title,
      description |-> << OrElse(task.description, <<>>, <<>>) >>,
      status |-> task.status,
      deadline |-> IF task.deadline # <<>> THEN << dayOf(task.deadline[1]) >> ELSE <<>>,
      parent_id |-> task.parent_id,
      labels |-> task.labels,
      priority |-> task.priority ]

\* handleSubmit's submitData; the user has typed `typed` when the title is
\* empty.
submitData(formData, typed) ==
    [ formData EXCEPT !.title = IF @ = <<>> THEN typed ELSE @,
                      !.description = IF @ = <<>> THEN << <<>> >> ELSE @,
                      !.parent_id = IF @ = <<0>> THEN <<>> ELSE @ ]

(***************************************************************************)
(* createStorageService and connect.  An item of localStorage and a        *)
(* build-time variable are optional strings.                               *)
(***************************************************************************)
TrueText == <<116, 114, 117, 101>>

\* A value that is neither null/undefined nor the empty string.
truthy(value) == value # <<>> /\ value[1] # <<>>

\* createStorageService: the backend chosen and the arguments given to its
\* constructor.
createStorageService(items, env) ==
    LET userPrefersSupabase == items.use_supabase = << TrueText >>
        storageType == env.VITE_STORAGE_TYPE
        supabaseUrl == IF truthy(env.VITE_SUPABASE_URL) THEN env.VITE_SUPABASE_URL
                       ELSE items.supabase_config_url
        supabaseKey == IF truthy(env.VITE_SUPABASE_ANON_KEY) THEN env.VITE_SUPABASE_ANON_KEY
                       ELSE items.supabase_config_key
        shouldUseSupabase == /\ userPrefersSupabase \/ storageType = << "supabase" >>
                             /\ storageType # << "local" >>
                             /\ truthy(supabaseUrl) /\ truthy(supabaseKey)
    IN  IF shouldUseSupabase
        THEN [ backend |-> "supabase", arguments |-> << supabaseUrl[1], supabaseKey[1] >> ]
        ELSE [ backend |-> "browser", arguments |-> <<>> ]

\* connect of the chosen service: whether it returns rather than throws,
\* and the credentials createClient is given.  SupabaseStorageService
\* declares no constructor: the arguments of `new` are dropped.
connect(service, env) ==
    IF service.backend = "browser" THEN [ ok |-> TRUE, client |-> <<>> ]
    ELSE IF ~truthy(env.VITE_SUPABASE_URL) \/ ~truthy(env.VITE_SUPABASE_ANON_KEY)
         THEN [ ok |-> FALSE, client |-> <<>> ]
         ELSE [ ok |-> TRUE,
                client |-> << [ url |-> env.VITE_SUPABASE_URL[1],
                                key |-> env.VITE_SUPABASE_ANON_KEY[1] ] >> ]

(***************************************************************************)
(* Asynchronous calls on browser storage.  An async method runs            *)
(* synchronously up to its first await and between two awaits; no other    *)
(* code runs during such a run.                                            *)
(***************************************************************************)
\* A createTask, updateTask and deleteTask that would await between
\* getTasks() and saveTasks().
segmentsSuspending(method) == << << "getTasks" >>, << "saveTasks" >> >>

\* The synchronous runs of the body of createTask, updateTask and
\* deleteTask, as the storage accesses each run makes: the bodies hold no
\* await, so getTasks() and saveTasks() are in one run.
segments(method) == << << "getTasks", "saveTasks" >> >>

\* The method of a call, applied to the collection `store`.
applyCall(store, call, now) ==
    CASE call.method = "createTask" -> createTask(store, call.arg, now).store
      [] call.method = "updateTask" -> updateTask(store, call.id, call.arg, now).store
      [] call.method = "deleteTask" -> deleteTask(store, call.id).store

\* One synchronous run: getTasks() reads the stored collection into the
\* frame; saveTasks() writes what the method makes of the array it read.
RECURSIVE runSteps(_, _, _, _)
runSteps(accesses, frame, store, now) ==
    IF accesses = <<>> THEN [ frame |-> frame, store |-> store ]
    ELSE IF Head(accesses) = "getTasks"
         THEN runSteps(Tail(accesses), [ frame EXCEPT !.read = store ], store, now)
         ELSE runSteps(Tail(accesses), [ frame EXCEPT !.now = now ],
                       applyCall(frame.read, frame.call, now), now)

\* The next run of the frame's call.
runFrame(frame, store, now) ==
    LET r == runSteps(segments(frame.call.method)[frame.position], frame, store, now)
    IN  [ frame |-> [ r.frame EXCEPT !.position = @ + 1 ], store |-> r.store ]

newFrame(process, call, store) ==
    [ process |-> process, call |-> call, position |-> 1, read |-> store, now |-> 0 ]

finished(frame) == frame.position > Len(segments(frame.call.method))

\* The calls of `completed`, applied one after another to `store`.
RECURSIVE replay(_, _)
replay(completed, store) ==
    IF completed = <<>> THEN store
    ELSE replay(Tail(completed), applyCall(store, Head(completed).call, Head(completed).now))

(***************************************************************************)
(* Inputs of the model.                                                    *)
(***************************************************************************)
Apple == <<65, 112, 112, 108, 101>> \* 'Apple'
Mango == <<77, 97, 110, 103, 111>> \* 'Mango'
Zebra == <<90, 101, 98, 114, 97>> \* 'Zebra'
Note == <<110, 111, 116, 101>> \* 'note'
Home == <<104, 111, 109, 101>> \* 'home'
Deadline1 == 500    \* an instant before ClockBase
Priority3 == 3

\* ids passed to getTask, updateTask, deleteTask and used as parent_id
IdInputs == {1, 2, ClockBase, MissingId}
ParentInputs == {<<>>} \cup { <<i>> : i \in IdInputs }
\* the same for the Supabase table, whose ids come from the sequence
SbIdInputs == {1, 2, 3, MissingId}

\* CreateTaskData: a title, a parent, and the other properties either all
\* left out or all given.
CreateTaskData(title, parent_id, full) ==
    [ title |-> title,
      description |-> IF full THEN <<Note>> ELSE <<>>,
      status |-> IF full THEN <<DONE>> ELSE <<>>,
      deadline |-> IF full THEN <<Deadline1>> ELSE <<>>,
      parent_id |-> parent_id,
      labels |-> IF full THEN << <<Home>> >> ELSE <<>>,
      priority |-> IF full THEN <<Priority3>> ELSE <<>> ]

CreateInputs ==
    { CreateTaskData(Apple, p, full) : p \in ParentInputs, full \in BOOLEAN }

\* UpdateTaskData: own properties only for what the caller set; the optional
\* properties may be set to undefined (TaskForm.handleSubmit does so for an
\* empty deadline or parent).
UpdateInputs ==
    { [ title |-> Mango ],
      [ description |-> <<>> ],
      [ deadline |-> <<Deadline1>> ],
      [ deadline |-> <<>> ],
      [ status |-> IN_PROGRESS, labels |-> << <<Home>> >>, priority |-> Priority3 ] }
    \cup { [ parent_id |-> p ] : p \in ParentInputs }
    \cup { [ title |-> Zebra, description |-> <<Note>>, status |-> DONE, deadline |-> <<>>,
             parent_id |-> <<>>, labels |-> <<>>, priority |-> 0 ] }

\* A decoded record of an import file.
FileTask(id, title, status, parent_id, priority) ==
    [ id |-> id, title |-> title, description |-> <<>>, status |-> status,
      deadline |-> <<>>, parent_id |-> parent_id, created_at |-> <<>>, updated_at |-> <<>>,
      labels |-> <<>>, priority |-> priority ]

JsonArray(items) == [ kind |-> "array", items |-> items ]

ImportInputs ==
    { \* a text that is not JSON
      File("json", [ kind |-> "unparseable", items |-> <<>> ], <<>>),
      \* a JSON object, not an array
      File("json", [ kind |-> "object", items |-> <<>> ], <<>>),
      \* an export of a parent and its child, made from another store
      File("json", JsonArray(<< FileTask(<<1>>, <<Apple>>, <<NOT_STARTED>>, <<>>, <<0>>),
                                FileTask(<<2>>, <<Mango>>, <<DONE>>, <<1>>, <<Priority3>>) >>), <<>>),
      \* a record without a title, then one that passes the validation, with
      \* a priority of 6
      File("json", JsonArray(<< FileTask(<<>>, <<>>, <<NOT_STARTED>>, <<>>, <<>>),
                                FileTask(<<>>, <<Zebra>>, <<IN_PROGRESS>>, <<>>,
                                         <<Priority3 + Priority3>>) >>), <<>>) }

\* Files imported into the Supabase table, whose constraints reject a
\* parent that does not exist and a priority above 5.
SbImportInputs ==
    { File("json", [ kind |-> "unparseable", items |-> <<>> ], <<>>),
      File("json", JsonArray(<< FileTask(<<>>, <<Apple>>, <<DONE>>, <<MissingId>>, <<0>>),
                                FileTask(<<>>, <<Mango>>, <<DONE>>, <<1>>, <<Priority3>>) >>), <<>>),
      File("json", JsonArray(<< FileTask(<<>>, <<Zebra>>, <<DONE>>, <<>>, <<0>>),
                                FileTask(<<>>, <<Apple>>, <<DONE>>, <<>>, <<Priority3 + Priority3>>) >>), <<>>) }

\* ExportOptions
ExportInputs ==
    [ format : {"json", "csv", "markdown"}, includeCompleted : BOOLEAN,
      includeDescription : BOOLEAN, includeLabels : BOOLEAN ]

MaxBatch == 2       \* records in one import file
TickInputs == [ 1..MaxBatch -> {0, 1} ]
MaxRecords == 3     \* tasks in an exported collection
\* for an import of an exported file: no time passes, or a millisecond
\* before each create
TransferTicks == { [ i \in 1..MaxRecords |-> b ] : b \in {0, 1} }

\* TaskFilters values: every combination of these choices.
SearchText == <<65, 78>> \* 'AN'
Plan == <<112, 108, 97, 110>> \* 'plan'
Banana == <<98, 97, 110, 97, 110, 97>> \* 'banana', in lower case
NoFilters ==
    [ status |-> <<>>, labels |-> <<>>, priority |-> <<>>, deadlineRange |-> <<>>,
      searchText |-> <<>> ]
FilterInputs ==
    [ status : { <<>>, << <<DONE>> >> },
      labels : { <<>>, << <<Home>> >> },
      priority : { <<>>, << <<Priority3>> >> },
      deadlineRange : { <<>>,
                        << [ start |-> <<>>, end |-> <<>> ] >>,
                        << [ start |-> <<Deadline1>>, end |-> <<>> ] >>,
                        << [ start |-> <<>>, end |-> <<Deadline1>> ] >>,
                        << [ start |-> <<Deadline1>>, end |-> <<Deadline1 + 1>> ] >> },
      searchText : { <<>>, <<SearchText>> } ]

\* getTasksWithFilters called on the service itself: sortOptions is optional.
QueryFilterInputs == { NoFilters, [ NoFilters EXCEPT !.status = << <<DONE>> >> ] }
QuerySortInputs == { <<>>, << [ field |-> "title", direction |-> "asc" ] >> }

SortFields == {"title", "status", "deadline", "priority", "created_at", "updated_at"}
SortInputs == [ field : SortFields, direction : {"asc", "desc"} ]

\* A task made by createTask at the k-th millisecond after ClockBase.
PoolTask(k, title, description, status, deadline, parent_id, labels, priority) ==
    Task(ClockBase + k, title, description, status, deadline, parent_id,
         ClockBase + k, ClockBase + k, labels, priority)

\* three tasks that differ in every filtered property
ExampleTasks ==
    << PoolTask(1, Zebra, <<Note>>, DONE, <<Deadline1>>, <<>>, <<Home>>, Priority3),
       PoolTask(2, Apple, <<Plan>>, NOT_STARTED, <<>>, <<>>, <<>>, 0),
       PoolTask(3, Mango, << <<>> >>, DONE, <<Deadline1 + 1>>, <<>>, <<Home, Note>>, 0) >>
\* a task, its child and its grandchild, created in that order
ChainTasks ==
    << PoolTask(1, Apple, << <<>> >>, NOT_STARTED, <<>>, <<>>, <<>>, 0),
       PoolTask(2, Mango, << <<>> >>, DONE, <<Deadline1>>, <<ClockBase + 1>>, <<Home>>, Priority3),
       PoolTask(3, Zebra, <<Note>>, DONE, <<>>, <<ClockBase + 2>>, <<Home>>, 0) >>
\* a task whose parent is not stored, and its child
OrphanTasks ==
    << PoolTask(1, Apple, << <<>> >>, DONE, <<>>, <<MissingId>>, <<Home>>, 0),
       PoolTask(2, Mango, << <<>> >>, DONE, <<>>, <<ClockBase + 1>>, <<>>, 0) >>
\* two tasks that are each other's parent, and a third one whose title is
\* in lower case
CycleTasks ==
    << PoolTask(1, Apple, << <<>> >>, DONE, <<>>, <<ClockBase + 2>>, <<>>, 0),
       PoolTask(2, Mango, << <<>> >>, DONE, <<>>, <<ClockBase + 1>>, <<>>, 0),
       PoolTask(3, Banana, << <<>> >>, NOT_STARTED, <<>>, <<>>, <<>>, 0) >>

\* three tasks whose titles hold a comma, a double quote and a line break
QuotedTasks ==
    << PoolTask(1, <<65, Comma, 98>>, << <<>> >>, DONE, <<Deadline1>>, <<>>, <<Home>>, Priority3),
       PoolTask(2, <<97, Quote, 98>>, <<Note>>, NOT_STARTED, <<>>, <<>>, <<>>, 0),
       PoolTask(3, <<97, LineFeed, 98>>, << <<>> >>, IN_PROGRESS, <<>>, <<>>, <<Home, Note>>, 0) >>

\* a completed task and its child, which is not completed
DoneParentTasks ==
    << PoolTask(1, Apple, <<Note>>, DONE, <<>>, <<>>, <<Home>>, 0),
       PoolTask(2, Mango, << <<>> >>, NOT_STARTED, <<>>, <<ClockBase + 1>>, <<>>, Priority3) >>

\* The stored collections an export is made from.
TransferPool == { ExampleTasks, ChainTasks, QuotedTasks, DoneParentTasks }

\* The stored collections a page is opened on.
StorePool == { <<>>, sampleTasks(ClockBase), ExampleTasks, ChainTasks, OrphanTasks, CycleTasks }

\* The rows created after the schema's sample rows: ids from the sequence,
\* null for a missing description, parents that exist.
rowsAfterSamples(taskList) ==
    LET n == Len(schemaSampleRows(ClockBase))
    IN  [ i \in 1..Len(taskList) |->
            [ taskList[i] EXCEPT
                !.id = n + i,
                !.description = IF @ = << <<>> >> THEN <<>> ELSE @,
                !.parent_id = IF @ = <<>> THEN <<>> ELSE << n + (@[1] - ClockBase) >> ] ]

TablePool ==
    { schemaSampleRows(ClockBase),
      schemaSampleRows(ClockBase) \o rowsAfterSamples(ExampleTasks),
      schemaSampleRows(ClockBase) \o rowsAfterSamples(ChainTasks) }

(***************************************************************************)
(* The state machine of the browser-storage backend.                       *)
(***************************************************************************)
\* A call of a storage service: its arguments, the collection before it,
\* what it returned (ret: Task | null, ok: boolean), the clock reading, and
\* whether it returned at all.
Call(backend, op, id, arg, before, ret, ok) ==
    [ backend |-> backend, op |-> op, id |-> id, arg |-> arg, before |-> before,
      ret |-> ret, ok |-> ok, now |-> clock, returned |-> TRUE ]

\* App's state when the component mounts.
\* TaskForm's formData before the user touches the form.
emptyFormData ==
    [ title |-> <<>>, description |-> <<>>, status |-> NOT_STARTED, deadline |-> <<>>,
      parent_id |-> <<>>, labels |-> <<>>, priority |-> 0 ]

\* isFormOpen = false, selectedTask = null.  `subtaskOf` is the node whose
\* plus icon opened the form and `parentTouched` tells whether the user
\* changed the parent field since.
closedForm ==
    [ isFormOpen |-> FALSE, selectedTask |-> <<>>, formData |-> emptyFormData,
      subtaskOf |-> <<>>, parentTouched |-> FALSE ]

\* No item saved, no build-time variable set, no service selected, no
\* Supabase client created.
noSettings ==
    [ items |-> [ use_supabase |-> <<>>, supabase_config_url |-> <<>>, supabase_config_key |-> <<>> ],
      env |-> [ VITE_STORAGE_TYPE |-> <<>>, VITE_SUPABASE_URL |-> <<>>, VITE_SUPABASE_ANON_KEY |-> <<>> ],
      selected |-> "none", connected |-> FALSE, client |-> <<>> ]

\* No call in progress: the import loop not started (next is the index of
\* the record whose createTask comes next), the user handler idle, no call
\* completed yet.  A frame holds a call, the index of the next synchronous
\* run of its body, and what its getTasks() read.
idleLoop ==
    [ importer |-> [ pc |-> "idle", next |-> 1, frame |-> <<>> ],
      user |-> [ pc |-> "idle", issued |-> 0, frame |-> <<>> ],
      completed |-> <<>>,
      initial |-> <<>> ]

AppInit ==
    /\ form = closedForm
    /\ eventLoop = idleLoop
    /\ settings = noSettings
    /\ filters = NoFilters
    /\ sortOptions = [ field |-> "created_at", direction |-> "desc" ]
    /\ loadedTasks = <<>>
    /\ taskTree = emptyTree
    /\ download = <<>>

Init ==
    /\ localStorage = [ k \in {storageKey} |-> <<>> ]
    /\ clock = ClockBase
    /\ steps = 0
    /\ last = Call("browser", "none", 0, <<>>, <<>>, <<>>, TRUE)
    /\ importResult = <<>>
    /\ table = <<>>
    /\ sequence = 1
    /\ dbService = "browser"
    /\ AppInit

\* A millisecond passes.
Tick ==
    /\ clock < ClockBase + MaxTicks
    /\ clock' = clock + 1
    /\ UNCHANGED <<localStorage, steps, last, importResult, supabaseVars, appVars>>

InitializeSchema ==
    /\ steps < MaxSteps
    /\ localStorage' = initializeSchema(localStorage, clock)
    /\ last' = Call("browser", "initializeSchema", 0, <<>>, getTasks, <<>>, TRUE)
    /\ steps' = steps + 1
    /\ UNCHANGED <<clock, importResult, supabaseVars, appVars>>

CreateTask(taskData) ==
    /\ steps < MaxSteps
    /\ LET r == createTask(localStorage, taskData, clock)
       IN  /\ localStorage' = r.store
           /\ last' = Call("browser", "createTask", 0, taskData, getTasks, <<r.ret>>, TRUE)
    /\ steps' = steps + 1
    /\ UNCHANGED <<clock, importResult, supabaseVars, appVars>>

GetTask(id) ==
    /\ steps < MaxSteps
    /\ last' = Call("browser", "getTask", id, <<>>, getTasks, getTask(localStorage, id), TRUE)
    /\ steps' = steps + 1
    /\ UNCHANGED <<localStorage, clock, importResult, supabaseVars, appVars>>

GetTasksWithFilters(f, sort) ==
    /\ steps < MaxSteps
    /\ last' = Call("browser", "getTasksWithFilters", 0, [ filters |-> f, sort |-> sort ],
                    getTasks, getTasksWithFilters(localStorage, f, sort), TRUE)
    /\ steps' = steps + 1
    /\ UNCHANGED <<localStorage, clock, importResult, supabaseVars, appVars>>

UpdateTask(id, taskData) ==
    /\ steps < MaxSteps
    /\ LET r == updateTask(localStorage, id, taskData, clock)
       IN  /\ localStorage' = r.store
           /\ last' = Call("browser", "updateTask", id, taskData, getTasks, r.ret, TRUE)
    /\ steps' = steps + 1
    /\ UNCHANGED <<clock, importResult, supabaseVars, appVars>>

DeleteTask(id) ==
    /\ steps < MaxSteps
    /\ LET r == deleteTask(localStorage, id)
       IN  /\ localStorage' = r.store
           /\ last' = Call("browser", "deleteTask", id, <<>>, getTasks, <<>>, r.ret)
    /\ steps' = steps + 1
    /\ UNCHANGED <<clock, importResult, supabaseVars, appVars>>

\* importTasks on browser storage, with onTasksUpdated (App.loadTasks) when
\* a task was imported.
runImport(file, ticks) ==
    \E r \in { importTasks(localStorage, file, ticks, clock) } :
        /\ localStorage' = r.store
        /\ clock' = r.now
        /\ importResult' = << r.result >>
        /\ last' = [ Call("browser", "importTasks", 0, file, getTasks, <<>>, r.result.success)
                       EXCEPT !.now = r.now ]
        /\ IF r.result.importedCount > 0
           THEN \E loaded \in { getTasksWithFilters(r.store, filters, << sortOptions >>) } :
                    loadedTasks' = loaded /\ taskTree' = buildTaskTree(loaded)
           ELSE UNCHANGED <<loadedTasks, taskTree>>
        /\ steps' = steps + 1
        /\ UNCHANGED <<supabaseVars, dbService, filters, sortOptions, download, form, settings, eventLoop>>

ImportTasks(file, ticks) ==
    /\ steps < MaxSteps
    /\ importTasks(localStorage, file, ticks, clock).now <= ClockBase + MaxTicks
    /\ runImport(file, ticks)

Next ==
    \/ Tick
    \/ \E file \in ImportInputs, ticks \in TickInputs : ImportTasks(file, ticks)
    \/ InitializeSchema
    \/ \E taskData \in CreateInputs : CreateTask(taskData)
    \/ \E id \in IdInputs : GetTask(id)
    \/ \E f \in QueryFilterInputs, sort \in QuerySortInputs : GetTasksWithFilters(f, sort)
    \/ \E id \in IdInputs, taskData \in UpdateInputs : UpdateTask(id, taskData)
    \/ \E id \in IdInputs : DeleteTask(id)

Spec == Init /\ [][Next]_vars

(***************************************************************************)
(* The state machine of the Supabase backend, after connect().             *)
(***************************************************************************)
SbInit ==
    /\ localStorage = [ k \in {storageKey} |-> <<>> ]
    /\ clock = ClockBase
    /\ steps = 0
    /\ last = Call("supabase", "none", 0, <<>>, <<>>, <<>>, TRUE)
    /\ importResult = <<>>
    /\ table = schemaSampleRows(ClockBase)
    /\ sequence = Len(table) + 1
    /\ dbService = "supabase"
    /\ AppInit

SbTick ==
    /\ clock < ClockBase + MaxTicks
    /\ clock' = clock + 1
    /\ UNCHANGED <<steps, last, browserVars, supabaseVars, appVars>>

SbCreateTask(taskData) ==
    /\ steps < SbMaxSteps
    /\ LET r == sbCreateTask(table, sequence, taskData, clock)
       IN  /\ table' = r.table
           /\ sequence' = r.sequence
           /\ last' = Call("supabase", "createTask", 0, taskData, tableTasks(table), r.ret, ~r.threw)
    /\ steps' = steps + 1
    /\ UNCHANGED <<clock, browserVars, appVars>>

SbGetTask(id) ==
    /\ steps < SbMaxSteps
    /\ last' = Call("supabase", "getTask", id, <<>>, tableTasks(table), sbGetTask(table, id), TRUE)
    /\ steps' = steps + 1
    /\ UNCHANGED <<clock, browserVars, supabaseVars, appVars>>

SbGetTasksWithFilters(f, sort) ==
    /\ steps < SbMaxSteps
    /\ last' = Call("supabase", "getTasksWithFilters", 0, [ filters |-> f, sort |-> sort ],
                    tableTasks(table), sbGetTasksWithFilters(table, f, sort), TRUE)
    /\ steps' = steps + 1
    /\ UNCHANGED <<clock, browserVars, supabaseVars, appVars>>

\* importTasks on Supabase, with onTasksUpdated when a task was imported.
SbImportTasks(file) ==
    /\ steps < SbMaxSteps
    /\ \E r \in { sbImportTasks(table, sequence, file, clock) } :
           /\ table' = r.table
           /\ sequence' = r.sequence
           /\ importResult' = << r.result >>
           /\ last' = Call("supabase", "importTasks", 0, file, tableTasks(table), <<>>, r.result.success)
           /\ IF r.result.importedCount > 0
              THEN \E loaded \in { sbGetTasksWithFilters(r.table, filters, << sortOptions >>) } :
                       loadedTasks' = loaded /\ taskTree' = buildTaskTree(loaded)
              ELSE UNCHANGED <<loadedTasks, taskTree>>
    /\ steps' = steps + 1
    /\ UNCHANGED <<clock, localStorage, dbService, filters, sortOptions, download, form, settings, eventLoop>>

SbInitializeSchema(answer) ==
    /\ steps < SbMaxSteps
    /\ table' = sbInitializeSchema(table, answer, clock)
    /\ last' = Call("supabase", "initializeSchema", 0, answer, tableTasks(table), <<>>, TRUE)
    /\ steps' = steps + 1
    /\ UNCHANGED <<clock, sequence, browserVars, appVars>>

SbUpdateTask(id, taskData) ==
    /\ steps < SbMaxSteps
    /\ LET r == sbUpdateTask(table, id, taskData, clock)
       IN  /\ table' = r.table
           /\ last' = Call("supabase", "updateTask", id, taskData, tableTasks(table), r.ret, TRUE)
    /\ steps' = steps + 1
    /\ UNCHANGED <<clock, sequence, browserVars, appVars>>

SbDeleteTask(id) ==
    /\ steps < SbMaxSteps
    /\ LET r == sbDeleteTask(table, id)
       IN  /\ table' = r.table
           /\ last' = [ Call("supabase", "deleteTask", id, <<>>, tableTasks(table), <<>>, r.ret)
                          EXCEPT !.returned = r.returned ]
    /\ steps' = steps + 1
    /\ UNCHANGED <<clock, sequence, browserVars, appVars>>

\* The requests the service rejects during one deleteTask.
FailureInputs == [ select : SUBSET {1, 2, 3}, delete : SUBSET {1, 2, 3} ]

SbDeleteTaskUnder(id, fails) ==
    /\ steps < SbMaxSteps
    /\ \E r \in { sbDeleteTaskUnder(table, id, fails) } :
           /\ table' = r.table
           /\ last' = [ Call("supabase", "deleteTask", id, fails, tableTasks(table),
                             << r.rejected >>, r.ret)
                          EXCEPT !.returned = r.returned ]
    /\ steps' = steps + 1
    /\ UNCHANGED <<clock, sequence, browserVars, appVars>>

OutageNext ==
    \/ \E taskData \in CreateInputs : SbCreateTask(taskData)
    \/ \E id \in SbIdInputs, fails \in FailureInputs : SbDeleteTaskUnder(id, fails)

\* The Supabase backend while the service rejects some requests.
SpecOutage == SbInit /\ [][OutageNext]_vars

SbNext ==
    \/ SbTick
    \/ \E answer \in SchemaAnswers(table) : SbInitializeSchema(answer)
    \/ \E taskData \in CreateInputs : SbCreateTask(taskData)
    \/ \E id \in SbIdInputs : SbGetTask(id)
    \/ \E file \in SbImportInputs : SbImportTasks(file)
    \/ \E f \in QueryFilterInputs, sort \in QuerySortInputs : SbGetTasksWithFilters(f, sort)
    \/ \E id \in SbIdInputs, taskData \in UpdateInputs : SbUpdateTask(id, taskData)
    \/ \E id \in SbIdInputs : SbDeleteTask(id)

SpecSupabase == SbInit /\ [][SbNext]_vars

(***************************************************************************)
(* The state machine of the two backends side by side: both hold the       *)
(* sample tasks, with ids 1 to 7, and each call of the IStorageService     *)
(* interface is made on the one and on the other.  What a call gives back  *)
(* is kept as its outcome ("returned", "threw", "never returns"), the      *)
(* tasks it returned and, for deleteTask, the boolean.                     *)
(***************************************************************************)
BothMaxSteps == 2
BothIdInputs == {1, 2, MissingId}

Outcome(outcome, tasks, value) == [ outcome |-> outcome, tasks |-> tasks, value |-> value ]

BothInit ==
    /\ localStorage = initializeSchema([ k \in {storageKey} |-> <<>> ], ClockBase)
    /\ table = schemaSampleRows(ClockBase)
    /\ sequence = Len(table) + 1
    /\ clock = ClockBase
    /\ steps = 0
    /\ importResult = <<>>
    /\ dbService = "browser"
    /\ last = Call("both", "none", 0, <<>>, <<>>, <<>>, TRUE)
    /\ AppInit

BothTick ==
    /\ clock < ClockBase + MaxTicks
    /\ clock' = clock + 1
    /\ UNCHANGED <<localStorage, steps, last, importResult, supabaseVars, appVars>>

BothCreateTask(taskData) ==
    /\ steps < BothMaxSteps
    /\ \E b \in { createTask(localStorage, taskData, clock) },
          s \in { sbCreateTask(table, sequence, taskData, clock) } :
           /\ localStorage' = b.store
           /\ table' = s.table
           /\ sequence' = s.sequence
           /\ last' = Call("both", "createTask", 0, taskData, getTasks,
                           [ browser |-> Outcome("returned", << b.ret >>, <<>>),
                             supabase |-> Outcome(IF s.threw THEN "threw" ELSE "returned", s.ret, <<>>) ],
                           TRUE)
    /\ steps' = steps + 1
    /\ UNCHANGED <<clock, importResult, appVars>>

BothUpdateTask(id, taskData) ==
    /\ steps < BothMaxSteps
    /\ \E b \in { updateTask(localStorage, id, taskData, clock) },
          s \in { sbUpdateTask(table, id, taskData, clock) } :
           /\ localStorage' = b.store
           /\ table' = s.table
           /\ last' = Call("both", "updateTask", id, taskData, getTasks,
                           [ browser |-> Outcome("returned", b.ret, <<>>),
                             supabase |-> Outcome("returned", s.ret, <<>>) ],
                           TRUE)
    /\ steps' = steps + 1
    /\ UNCHANGED <<clock, sequence, importResult, appVars>>

BothDeleteTask(id) ==
    /\ steps < BothMaxSteps
    /\ \E b \in { deleteTask(localStorage, id) }, s \in { sbDeleteTask(table, id) } :
           /\ localStorage' = b.store
           /\ table' = s.table
           /\ last' = Call("both", "deleteTask", id, <<>>, getTasks,
                           [ browser |-> Outcome("returned", <<>>, << b.ret >>),
                             supabase |-> Outcome(IF s.returned THEN "returned" ELSE "never returns",
                                                  <<>>, << s.ret >>) ],
                           TRUE)
    /\ steps' = steps + 1
    /\ UNCHANGED <<clock, sequence, importResult, appVars>>

BothGetTasksWithFilters(f, sort) ==
    /\ steps < BothMaxSteps
    /\ last' = Call("both", "getTasksWithFilters", 0, [ filters |-> f, sort |-> sort ], getTasks,
                    [ browser |-> Outcome("returned", getTasksWithFilters(localStorage, f, sort), <<>>),
                      supabase |-> Outcome("returned", sbGetTasksWithFilters(table, f, sort), <<>>) ],
                    TRUE)
    /\ steps' = steps + 1
    /\ UNCHANGED <<localStorage, clock, importResult, supabaseVars, appVars>>

BothNext ==
    \/ BothTick
    \/ \E taskData \in CreateInputs : BothCreateTask(taskData)
    \/ \E id \in BothIdInputs, taskData \in UpdateInputs : BothUpdateTask(id, taskData)
    \/ \E id \in BothIdInputs : BothDeleteTask(id)
    \/ \E f \in QueryFilterInputs, sort \in QuerySortInputs : BothGetTasksWithFilters(f, sort)

SpecBoth == BothInit /\ [][BothNext]_vars

(***************************************************************************)
(* The state machine of the task view: the page is open on a stored        *)
(* collection, and each change of the filters or of the sort options runs  *)
(* App.loadTasks.                                                          *)
(***************************************************************************)
\* dbService.getTasksWithFilters of the chosen backend.
query(f, sort) ==
    IF dbService = "supabase"
    THEN sbGetTasksWithFilters(table, f, << sort >>)
    ELSE getTasksWithFilters(localStorage, f, << sort >>)

\* loadTasks: the query, then setTasks and buildTaskTree on its result.
loadTasks(f, sort) ==
    LET loaded == query(f, sort)
    IN  /\ loadedTasks' = loaded
        /\ taskTree' = buildTaskTree(loaded)
        /\ last' = Call(dbService, "getTasksWithFilters", 0, [ filters |-> f, sort |-> << sort >> ],
                        IF dbService = "supabase" THEN tableTasks(table) ELSE getTasks,
                        loaded, TRUE)

ViewInit ==
    /\ clock = ClockBase + MaxSteps
    /\ steps = 0
    /\ importResult = <<>>
    /\ \E service \in {"browser", "supabase"} :
          /\ dbService = service
          /\ last = Call(service, "none", 0, <<>>, <<>>, <<>>, TRUE)
          /\ IF service = "browser"
             THEN /\ \E taskList \in StorePool :
                        localStorage = saveTasks([ k \in {storageKey} |-> <<>> ], taskList)
                  /\ table = <<>>
                  /\ sequence = 1
             ELSE /\ localStorage = [ k \in {storageKey} |-> <<>> ]
                  /\ \E rows \in TablePool : table = rows /\ sequence = Len(rows) + 1
    /\ AppInit

\* onFiltersChange={setFilters}, and the effect that follows.
SetFilters(f) ==
    /\ filters' = f
    /\ loadTasks(f, sortOptions)
    /\ UNCHANGED <<clock, steps, browserVars, supabaseVars, dbService, sortOptions, download, form, settings, eventLoop>>

\* onSortChange={setSortOptions}, and the effect that follows.
SetSortOptions(sort) ==
    /\ sortOptions' = sort
    /\ loadTasks(filters, sort)
    /\ UNCHANGED <<clock, steps, browserVars, supabaseVars, dbService, filters, download, form, settings, eventLoop>>

ViewNext ==
    \/ \E f \in FilterInputs : SetFilters(f)
    \/ \E sort \in SortInputs : SetSortOptions(sort)

SpecView == ViewInit /\ [][ViewNext]_vars

(***************************************************************************)
(* The state machine of export and import on browser storage: the page is  *)
(* open on a stored collection; the user exports it, clears the data,      *)
(* imports the downloaded file.                                            *)
(***************************************************************************)
TransferInit ==
    /\ clock = ClockBase + MaxRecords + 1
    /\ steps = 0
    /\ importResult = <<>>
    /\ dbService = "browser"
    /\ last = Call("browser", "none", 0, <<>>, <<>>, <<>>, TRUE)
    /\ \E taskList \in TransferPool :
          localStorage = saveTasks([ k \in {storageKey} |-> <<>> ], taskList)
    /\ table = <<>>
    /\ sequence = 1
    /\ AppInit

ExportTasks(options) ==
    /\ steps < MaxSteps
    /\ download' = << [ file |-> exportTasks(getTasks, options, clock),
                        source |-> filteredTasks(getTasks, options),
                        options |-> options ] >>
    /\ last' = Call("browser", "exportTasks", 0, options, getTasks, <<>>, TRUE)
    /\ steps' = steps + 1
    /\ UNCHANGED <<clock, browserVars, supabaseVars, dbService, filters, sortOptions,
                   loadedTasks, taskTree, form, settings, eventLoop>>

\* handleClearAllData: the item is removed, then loadTasks.
ClearAllData ==
    /\ steps < MaxSteps
    /\ localStorage' = [ localStorage EXCEPT ![storageKey] = <<>> ]
    /\ loadedTasks' = <<>>
    /\ taskTree' = buildTaskTree(<<>>)
    /\ last' = Call("browser", "clearAllData", 0, <<>>, getTasks, <<>>, TRUE)
    /\ steps' = steps + 1
    /\ UNCHANGED <<clock, importResult, supabaseVars, dbService, filters, sortOptions, download, form, settings, eventLoop>>

\* The downloaded file is chosen in the import dialog.
ImportDownload(ticks) ==
    /\ steps < MaxSteps
    /\ download # <<>>
    /\ runImport(download[1].file, ticks)

TransferNext ==
    \/ \E options \in ExportInputs : ExportTasks(options)
    \/ ClearAllData
    \/ \E ticks \in TransferTicks : ImportDownload(ticks)

SpecTransfer == TransferInit /\ [][TransferNext]_vars

(***************************************************************************)
(* The state machine of the task form: the page is open on a stored        *)
(* collection under a filter; the user opens the form (new task, plus icon *)
(* of a node, edit of a node), changes the parent field, saves or closes.  *)
(***************************************************************************)
FormMaxSteps == 2
FormPool == { ExampleTasks, ChainTasks, DoneParentTasks }

FormInit ==
    /\ clock = ClockBase + MaxRecords + 1
    /\ steps = 0
    /\ importResult = <<>>
    /\ dbService = "browser"
    /\ last = Call("browser", "none", 0, <<>>, <<>>, <<>>, TRUE)
    /\ table = <<>>
    /\ sequence = 1
    /\ \E taskList \in FormPool :
          localStorage = saveTasks([ k \in {storageKey} |-> <<>> ], taskList)
    /\ sortOptions = [ field |-> "created_at", direction |-> "desc" ]
    /\ \E f \in QueryFilterInputs :
          /\ filters = f
          /\ loadedTasks = getTasksWithFilters(localStorage, f, << sortOptions >>)
    /\ taskTree = buildTaskTree(loadedTasks)
    /\ download = <<>>
    /\ form = closedForm
    /\ settings = noSettings
    /\ eventLoop = idleLoop

formFrame == <<localStorage, steps, last, importResult, supabaseVars, dbService, filters,
               sortOptions, loadedTasks, taskTree, download, settings, eventLoop>>

FormTick ==
    /\ clock < ClockBase + MaxRecords + 1 + MaxTicks
    /\ clock' = clock + 1
    /\ UNCHANGED <<form, formFrame>>

\* The New Task button: handleNewTask().
NewTask ==
    /\ ~form.isFormOpen
    /\ form' = [ closedForm EXCEPT !.isFormOpen = TRUE ]
    /\ UNCHANGED <<clock, formFrame>>

\* The plus icon of a node: onNewSubtask(node.id), which is handleNewTask.
NewSubtask(parentId) ==
    /\ ~form.isFormOpen
    /\ parentId \in Range(flatten(taskTree))
    /\ form' = [ closedForm EXCEPT !.isFormOpen = TRUE, !.subtaskOf = << parentId >> ]
    /\ UNCHANGED <<clock, formFrame>>

\* The edit icon or the title of a node: handleTaskSelect(node).
TaskSelect(task) ==
    /\ ~form.isFormOpen
    /\ task.id \in Range(flatten(taskTree))
    /\ form' = [ closedForm EXCEPT !.isFormOpen = TRUE, !.selectedTask = << task >>,
                                   !.formData = formDataOf(task) ]
    /\ UNCHANGED <<clock, formFrame>>

\* The parent select: one of the options, or "No parent".
ChangeParent(parent_id) ==
    /\ form.isFormOpen
    /\ \E r \in { getAvailableParents(form.selectedTask, loadedTasks) } :
           /\ r.returned
           /\ parent_id = <<>> \/ \E i \in 1..Len(r.options) : parent_id = << r.options[i].id >>
    /\ form' = [ form EXCEPT !.formData.parent_id = parent_id, !.parentTouched = TRUE ]
    /\ UNCHANGED <<clock, formFrame>>

\* Save: handleSubmit, then handleCreateTask (which closes the form) or
\* handleUpdateTask (which only clears selectedTask); both end with loadTasks.
\* The form is filled by hand: two saves are never in the same millisecond.
SubmitForm ==
    /\ form.isFormOpen
    /\ steps < FormMaxSteps
    /\ \E data \in { submitData(form.formData, Apple) } :
         IF form.selectedTask = <<>>
         THEN \E r \in { createTask(localStorage,
                                    [ data EXCEPT !.status = << @ >>, !.labels = << @ >>,
                                                  !.priority = << @ >> ], clock) } :
                /\ localStorage' = r.store
                /\ last' = Call("browser", "saveForm", 0,
                                [ data |-> data, subtaskOf |-> form.subtaskOf,
                                  parentTouched |-> form.parentTouched ],
                                getTasks, << r.ret >>, TRUE)
                /\ form' = closedForm
                /\ loadedTasks' = getTasksWithFilters(r.store, filters, << sortOptions >>)
         ELSE \E r \in { updateTask(localStorage, form.selectedTask[1].id, data, clock) } :
                /\ localStorage' = r.store
                /\ last' = Call("browser", "saveForm", form.selectedTask[1].id,
                                [ data |-> data, subtaskOf |-> form.subtaskOf,
                                  parentTouched |-> form.parentTouched ],
                                getTasks, r.ret, TRUE)
                /\ form' = [ form EXCEPT !.selectedTask = <<>> ]
                /\ loadedTasks' = getTasksWithFilters(r.store, filters, << sortOptions >>)
    /\ taskTree' = buildTaskTree(loadedTasks')
    /\ steps' = steps + 1
    /\ clock' = clock + 1
    /\ UNCHANGED <<importResult, supabaseVars, dbService, filters, sortOptions,
                   download, settings, eventLoop>>

\* onClose
CloseForm ==
    /\ form.isFormOpen
    /\ form' = closedForm
    /\ UNCHANGED <<clock, formFrame>>

FormNext ==
    \/ FormTick
    \/ NewTask
    \/ \E task \in Range(loadedTasks) : NewSubtask(task.id)
    \/ \E task \in Range(loadedTasks) : TaskSelect(task)
    \/ \E task \in Range(loadedTasks) : ChangeParent(<< task.id >>)
    \/ ChangeParent(<<>>)
    \/ SubmitForm
    \/ CloseForm

SpecForm == FormInit /\ [][FormNext]_vars

(***************************************************************************)
(* The state machine of the storage selection: the build sets its          *)
(* variables; the user saves credentials in the settings dialog and        *)
(* refreshes the page.                                                     *)
(***************************************************************************)
CredentialInputs == { <<>>, Apple, Mango }
EnvInputs ==
    [ VITE_STORAGE_TYPE : { <<>>, << "supabase" >>, << "local" >> },
      VITE_SUPABASE_URL : { <<>>, << Zebra >> },
      VITE_SUPABASE_ANON_KEY : { <<>>, << Zebra >> } ]

SettingsInit ==
    /\ localStorage = [ k \in {storageKey} |-> <<>> ]
    /\ clock = ClockBase
    /\ steps = 0
    /\ last = Call("browser", "none", 0, <<>>, <<>>, <<>>, TRUE)
    /\ importResult = <<>>
    /\ table = schemaSampleRows(ClockBase)
    /\ sequence = Len(table) + 1
    /\ dbService = "none"
    /\ form = closedForm
    /\ eventLoop = idleLoop
    /\ \E env \in EnvInputs : settings = [ noSettings EXCEPT !.env = env ]
    /\ filters = NoFilters
    /\ sortOptions = [ field |-> "created_at", direction |-> "desc" ]
    /\ loadedTasks = <<>>
    /\ taskTree = buildTaskTree(<<>>)
    /\ download = <<>>

\* DataManagement.handleConfigureSupabase
ConfigureSupabase(supabaseUrl, supabaseKey) ==
    /\ settings' = [ settings EXCEPT !.items.supabase_config_url = << supabaseUrl >>,
                                     !.items.supabase_config_key = << supabaseKey >> ]
    /\ UNCHANGED <<clock, steps, last, browserVars, supabaseVars, dbService, filters,
                   sortOptions, loadedTasks, taskTree, download, form, eventLoop>>

\* A page load: initializeDatabase, then loadTasks once dbService is set.
InitializeDatabase ==
    \E service \in { createStorageService(settings.items, settings.env) } :
    \E connection \in { connect(service, settings.env) } :
        /\ settings' = [ settings EXCEPT !.selected = service.backend,
                                         !.connected = connection.ok,
                                         !.client = connection.client ]
        /\ last' = Call(service.backend, "initializeDatabase", 0,
                        [ items |-> settings.items, env |-> settings.env ],
                        IF service.backend = "supabase" THEN tableTasks(table) ELSE getTasks,
                        <<>>, connection.ok)
        /\ IF ~connection.ok
           THEN /\ dbService' = "none"
                /\ loadedTasks' = <<>>
                /\ UNCHANGED <<localStorage, table>>
           ELSE /\ dbService' = service.backend
                /\ IF service.backend = "supabase"
                   THEN /\ \E answer \in SchemaAnswers(table) :
                              table' = sbInitializeSchema(table, answer, clock)
                        /\ loadedTasks' = sbGetTasksWithFilters(table', filters, << sortOptions >>)
                        /\ UNCHANGED localStorage
                   ELSE /\ localStorage' = initializeSchema(localStorage, clock)
                        /\ loadedTasks' = getTasksWithFilters(localStorage', filters,
                                                              << sortOptions >>)
                        /\ UNCHANGED table
        /\ taskTree' = buildTaskTree(loadedTasks')
        /\ UNCHANGED <<clock, steps, importResult, sequence, filters, sortOptions, download, form, eventLoop>>

SettingsNext ==
    \/ \E supabaseUrl \in CredentialInputs, supabaseKey \in CredentialInputs :
          ConfigureSupabase(supabaseUrl, supabaseKey)
    \/ InitializeDatabase

SpecSettings == SettingsInit /\ [][SettingsNext]_vars

(***************************************************************************)
(* deleteTask on every kind of parent graph: both backends hold a          *)
(* collection whose parent_id references form a chain, a loop or a task    *)
(* that is its own parent; browser storage may also hold duplicate ids     *)
(* (two createTask calls in one millisecond).  The loops of the table are  *)
(* made by updateTask, which the foreign key does not prevent.             *)
(***************************************************************************)
\* a task that is its own parent, and its child
SelfParentTasks ==
    << PoolTask(1, Apple, << <<>> >>, DONE, <<>>, <<ClockBase + 1>>, <<>>, 0),
       PoolTask(2, Mango, << <<>> >>, DONE, <<>>, <<ClockBase + 1>>, <<>>, 0) >>
\* two tasks with one id, and their child, which is also their parent
TwinTasks ==
    << PoolTask(1, Apple, << <<>> >>, DONE, <<>>, <<ClockBase + 2>>, <<>>, 0),
       PoolTask(1, Mango, << <<>> >>, DONE, <<>>, <<ClockBase + 2>>, <<>>, 0),
       PoolTask(2, Zebra, << <<>> >>, DONE, <<>>, <<ClockBase + 1>>, <<>>, 0) >>

DeleteStorePool == { ChainTasks, CycleTasks, SelfParentTasks, TwinTasks }
DeleteTablePool ==
    { schemaSampleRows(ClockBase),
      sbUpdateTask(schemaSampleRows(ClockBase), 1, [ parent_id |-> <<3>> ], ClockBase).table,
      sbUpdateTask(schemaSampleRows(ClockBase), 5, [ parent_id |-> <<5>> ], ClockBase).table }

DeleteInit ==
    /\ \E taskList \in DeleteStorePool :
          localStorage = saveTasks([ k \in {storageKey} |-> <<>> ], taskList)
    /\ clock = ClockBase + MaxRecords + 1
    /\ steps = 0
    /\ last = Call("browser", "none", 0, <<>>, <<>>, <<>>, TRUE)
    /\ importResult = <<>>
    /\ \E rows \in DeleteTablePool : table = rows
    /\ sequence = Len(schemaSampleRows(ClockBase)) + 1
    /\ dbService = "browser"
    /\ AppInit

DeleteNext ==
    \/ \E id \in Ids(getTasks) \cup {MissingId} : DeleteTask(id)
    \/ \E id \in Ids(table) \cup {MissingId} : SbDeleteTask(id)

SpecDelete == DeleteInit /\ [][DeleteNext]_vars

(***************************************************************************)
(* The state machine of concurrent mutations on browser storage: an        *)
(* import is in flight (its loop awaits each createTask) while the user    *)
(* creates, edits and deletes tasks (each handler awaits its call, then    *)
(* loadTasks).                                                             *)
(***************************************************************************)
ConcurrentMaxCalls == 2
\* the valid records of an import file
ImportBatches ==
    { SelectSeq(decode(file).tasks, validTask) :
        file \in { f \in ImportInputs : ~decode(f).threw } } \ { <<>> }
ImportBatch == CHOOSE batch \in ImportBatches : \A other \in ImportBatches : Len(other) <= Len(batch)
UserCallInputs ==
    { [ method |-> "createTask", id |-> 0,
        arg |-> [ title |-> Banana, description |-> <<>>, status |-> <<>>, deadline |-> <<>>,
                  parent_id |-> <<>>, labels |-> <<>>, priority |-> <<>> ] ] }
    \cup { [ method |-> "updateTask", id |-> id, arg |-> [ status |-> DONE ] ]
             : id \in {ClockBase + 1, ClockBase + 2} }
    \cup { [ method |-> "deleteTask", id |-> id, arg |-> <<>> ] : id \in {ClockBase + 1, ClockBase + 2} }

ConcurrentInit ==
    /\ localStorage = saveTasks([ k \in {storageKey} |-> <<>> ], ChainTasks)
    /\ clock = ClockBase + MaxRecords + 1
    /\ steps = 0
    /\ last = Call("browser", "none", 0, <<>>, <<>>, <<>>, TRUE)
    /\ importResult = <<>>
    /\ table = <<>>
    /\ sequence = 1
    /\ dbService = "browser"
    /\ form = closedForm
    /\ settings = noSettings
    /\ filters = NoFilters
    /\ sortOptions = [ field |-> "created_at", direction |-> "desc" ]
    /\ loadedTasks = getTasksWithFilters(localStorage, filters, << sortOptions >>)
    /\ taskTree = buildTaskTree(loadedTasks)
    /\ download = <<>>
    /\ eventLoop = [ idleLoop EXCEPT !.initial = localStorage ]

concurrentFrame == <<steps, last, table, sequence, dbService, filters, sortOptions, download,
                     form, settings>>

ConcurrentTick ==
    /\ clock < ClockBase + MaxRecords + 1 + MaxTicks
    /\ clock' = clock + 1
    /\ UNCHANGED <<localStorage, importResult, loadedTasks, taskTree, eventLoop, concurrentFrame>>

\* The process runs its frame once: the stored collection after the run,
\* and the event loop with the frame advanced or, when the call is over,
\* removed and recorded.
turn(process, frame) ==
    \E r \in { runFrame(frame, localStorage, clock) } :
        /\ localStorage' = r.store
        /\ eventLoop' =
             IF finished(r.frame)
             THEN [ eventLoop EXCEPT
                      ![process].frame = <<>>,
                      ![process].pc = IF process = "user" THEN "reload" ELSE "running",
                      ![process].next = IF process = "importer" THEN @ + 1 ELSE @,
                      ![process].issued = IF process = "user" THEN @ + 1 ELSE @,
                      !.completed = Append(@, r.frame) ]
             ELSE [ eventLoop EXCEPT ![process].frame = << r.frame >>,
                                     ![process].pc = "running" ]

\* importTasks, from the start of the loop over validTasks: a run of the
\* loop issues the next createTask, or resumes the one that is suspended;
\* after the last record, setImportResult and onTasksUpdated (loadTasks).
ImportTurn ==
    /\ eventLoop.importer.pc # "done"
    /\ IF eventLoop.importer.frame # <<>>
       THEN /\ turn("importer", eventLoop.importer.frame[1])
            /\ UNCHANGED <<importResult, loadedTasks, taskTree>>
       ELSE IF eventLoop.importer.next <= Len(ImportBatch)
       THEN /\ turn("importer",
                    newFrame("importer",
                             [ method |-> "createTask", id |-> 0,
                               arg |-> importData(ImportBatch[eventLoop.importer.next]) ],
                             localStorage))
            /\ UNCHANGED <<importResult, loadedTasks, taskTree>>
       ELSE /\ eventLoop' = [ eventLoop EXCEPT !.importer.pc = "done" ]
            /\ importResult' = << [ success |-> TRUE, importedCount |-> Len(ImportBatch),
                                    errors |-> <<>> ] >>
            /\ loadedTasks' = getTasksWithFilters(localStorage, filters, << sortOptions >>)
            /\ taskTree' = buildTaskTree(loadedTasks')
            /\ UNCHANGED localStorage
    /\ UNCHANGED <<clock, concurrentFrame>>

\* handleCreateTask, handleUpdateTask, handleDeleteTask: the call.
UserCall(call) ==
    /\ eventLoop.user.pc = "idle"
    /\ eventLoop.user.issued < ConcurrentMaxCalls
    /\ turn("user", newFrame("user", call, localStorage))
    /\ UNCHANGED <<clock, importResult, loadedTasks, taskTree, concurrentFrame>>

\* The handler after its await: the suspended call resumes, or loadTasks.
UserTurn ==
    /\ eventLoop.user.pc # "idle"
    /\ IF eventLoop.user.frame # <<>>
       THEN /\ turn("user", eventLoop.user.frame[1])
            /\ UNCHANGED <<loadedTasks, taskTree>>
       ELSE /\ eventLoop' = [ eventLoop EXCEPT !.user.pc = "idle" ]
            /\ loadedTasks' = getTasksWithFilters(localStorage, filters, << sortOptions >>)
            /\ taskTree' = buildTaskTree(loadedTasks')
            /\ UNCHANGED localStorage
    /\ UNCHANGED <<clock, importResult, concurrentFrame>>

ConcurrentNext ==
    \/ ConcurrentTick
    \/ ImportTurn
    \/ \E call \in UserCallInputs : UserCall(call)
    \/ UserTurn

SpecConcurrent == ConcurrentInit /\ [][ConcurrentNext]_vars

\* The collection the last call's backend holds now.
stored == IF last.backend = "supabase" THEN tableTasks(table) ELSE getTasks

(***************************************************************************)
(* Claims.                                                                 *)
(***************************************************************************)

\* C1 (cascade completeness): after deleteTask(id) on a store that holds a
\* task with that id, the store holds exactly the tasks held before that are
\* neither the target nor reachable from it by parent_id edges downward, in
\* their previous order and unchanged.
C1_CascadeCompleteness ==
    (last.backend = "browser" /\ last.op = "deleteTask" /\ last.id \in Ids(last.before))
        => getTasks = SelectSeq(last.before,
                                LAMBDA t : t.id \notin Reachable(last.before, {last.id}))

\* C1 witness: a delete removed a target with a child and a grandchild and
\* left other tasks in the store.
C1_Witness ==
    /\ last.backend = "browser" /\ last.op = "deleteTask"
    /\ \E c \in Range(last.before), g \in Range(last.before) :
           c.parent_id = <<last.id>> /\ g.parent_id = <<c.id>> /\ g.id # last.id /\ g.id # c.id
    /\ Ids(getTasks) # {}
    /\ Ids(getTasks) = Ids(last.before) \ Reachable(last.before, {last.id})

\* C2 (deleteTask's result): on every backend deleteTask returns true iff the
\* call removed at least one record, and false when no task has the id.
C2_DeleteReturnsRemoved ==
    (last.op = "deleteTask" /\ last.returned)
        => /\ last.ok <=> Len(stored) < Len(last.before)
           /\ last.id \notin Ids(last.before) => ~last.ok

\* C3 (acyclicity): an updateTask on an acyclic store leaves it acyclic (an
\* update that would make a task its own ancestor is rejected or ignored).
C3_UpdateKeepsAcyclic ==
    (last.backend = "browser" /\ last.op = "updateTask" /\ IsAcyclic(last.before))
        => IsAcyclic(getTasks)

\* C4 (referential integrity): every stored task's parent_id, if present,
\* is the id of a stored task.
C4_ReferentialIntegrity ==
    \A t \in Range(getTasks) : t.parent_id # <<>> => t.parent_id[1] \in Ids(getTasks)

\* C5 (id uniqueness): no two stored tasks have the same id.
C5_UniqueIds ==
    \A i, j \in 1..Len(getTasks) : i # j => getTasks[i].id # getTasks[j].id

\* C6 (update frame): updateTask on an existing task changes only the
\* properties the patch provides (one present with value undefined is not
\* provided) and updated_at, which becomes the current time; id and
\* created_at stay, and every other task is untouched.
UpdateFields == {"title", "description", "status", "deadline", "parent_id", "labels", "priority"}
OptionalFields == {"description", "deadline", "parent_id"}
Provided(taskData, f) ==
    f \in DOMAIN taskData /\ ~(f \in OptionalFields /\ taskData[f] = <<>>)

C6_UpdateFrame ==
    (last.backend = "browser" /\ last.op = "updateTask" /\ last.ret # <<>>)
        => LET i == CHOOSE k \in 1..Len(last.before) :
                        /\ last.before[k].id = last.id
                        /\ \A j \in 1..(k - 1) : last.before[j].id # last.id
               old == last.before[i]
               new == getTasks[i]
           IN  /\ Len(getTasks) = Len(last.before)
               /\ \A j \in 1..Len(getTasks) : j # i => getTasks[j] = last.before[j]
               /\ new.id = old.id
               /\ new.created_at = old.created_at
               /\ new.updated_at = last.now
               /\ \A f \in UpdateFields :
                      new[f] = IF Provided(last.arg, f) THEN last.arg[f] ELSE old[f]

\* C7 (not found): getTask, updateTask and deleteTask with an id no stored
\* task has return null / false and leave the stored collection as it was.
C7_NotFoundIsFailure ==
    (/\ last.op \in {"getTask", "updateTask", "deleteTask"}
     /\ last.id \notin Ids(last.before)
     /\ last.returned)
        => /\ last.ret = <<>>
           /\ last.op = "deleteTask" => ~last.ok
           /\ stored = last.before

\* The number of ancestors of the task `id` in taskList.
RECURSIVE AncestorCount(_, _, _)
AncestorCount(taskList, id, seen) ==
    LET task == CHOOSE t \in Range(taskList) : t.id = id
    IN  IF task.parent_id = <<>> \/ task.parent_id[1] \notin Ids(taskList) \ seen
        THEN 0
        ELSE 1 + AncestorCount(taskList, task.parent_id[1], seen \cup {id})

\* C8 (tree completeness): the pre-order flattening of the forest built from
\* the query result holds each task of the result exactly once, and a task
\* without a parent_id, or whose parent_id names no task of the result, is a
\* root at level 0.
C8_TreeCompleteness ==
    LET flat == flatten(taskTree)
    IN  /\ Len(flat) = Len(loadedTasks)
        /\ \A t \in Range(loadedTasks) :
              Cardinality({ k \in 1..Len(flat) : flat[k] = t.id }) = 1
        /\ \A t \in Range(loadedTasks) :
              (t.parent_id = <<>> \/ t.parent_id[1] \notin Ids(loadedTasks))
                  => /\ t.id \in Range(taskTree.roots)
                     /\ taskTree.nodes[t.id].level = 0

\* C9 (tree levels): when the query result is acyclic, in whatever order it
\* comes, every node of the forest has as its level the number of its
\* ancestors in the result.
C9_TreeLevels ==
    IsAcyclic(loadedTasks)
        => \A id \in Range(flatten(taskTree)) :
              taskTree.nodes[id].level = AncestorCount(loadedTasks, id, {})

\* The filters f with every property but k left out.
Only(f, k) == [ j \in DOMAIN NoFilters |-> IF j = k THEN f[j] ELSE <<>> ]

\* C10 (filter conjunction): the tasks getTasksWithFilters returns are those
\* of the store that each filter, applied alone, returns; each is returned
\* once; the store is as before the query; and status=[done] sorted by title
\* ascending over (Zebra, done), (Apple, not_started), (Mango, done) gives
\* Mango, Zebra.
C10_FilterConjunction ==
    last.op = "getTasksWithFilters"
        => /\ Range(loadedTasks) =
                  { t \in Range(stored) :
                        \A k \in DOMAIN NoFilters : t \in Range(query(Only(filters, k), sortOptions)) }
           /\ Cardinality(Range(loadedTasks)) = Len(loadedTasks)
           /\ stored = last.before
           /\ (/\ dbService = "browser"
               /\ getTasks = ExampleTasks
               /\ filters = [ NoFilters EXCEPT !.status = << <<DONE>> >> ]
               /\ sortOptions = [ field |-> "title", direction |-> "asc" ])
                  => [ i \in 1..Len(loadedTasks) |-> loadedTasks[i].title ] = <<Mango, Zebra>>

\* Two filters are set, each alone returns more than both together, and
\* together they return something.
C10_Witness ==
    /\ last.op = "getTasksWithFilters"
    /\ loadedTasks # <<>>
    /\ \E j, k \in DOMAIN NoFilters :
          /\ j # k
          /\ Len(query(Only(filters, j), sortOptions)) > Len(loadedTasks)
          /\ Len(query(Only(filters, k), sortOptions)) > Len(loadedTasks)
          /\ Len(query(Only(filters, j), sortOptions)) < Len(stored)
          /\ Len(query(Only(filters, k), sortOptions)) < Len(stored)

\* C11 (deadline range): when a deadlineRange filter is supplied, with both
\* bounds, one or none, the tasks it keeps are exactly those that have a
\* deadline d with start <= d when start is given and d <= end when end is
\* given; a task without a deadline is not kept.
C11_DeadlineRange ==
    (last.op = "getTasksWithFilters" /\ last.arg.filters.deadlineRange # <<>>)
        => LET range == last.arg.filters.deadlineRange[1]
               alone == query(Only(last.arg.filters, "deadlineRange"), sortOptions)
           IN  Range(alone) =
                   { t \in Range(stored) :
                         /\ t.deadline # <<>>
                         /\ range.start # <<>> => range.start[1] <= t.deadline[1]
                         /\ range.end # <<>> => t.deadline[1] <= range.end[1] }

\* C12 (default sort): getTasksWithFilters called without a sort spec
\* returns the tasks ordered by created_at, latest first.
C12_DefaultSort ==
    (last.op = "getTasksWithFilters" /\ last.arg.sort = <<>>)
        => \A i, j \in 1..Len(last.ret) :
              i < j => last.ret[i].created_at >= last.ret[j].created_at

\* The deadline of a task as an instant, the epoch when it has none.
DeadlineOrEpoch(task) == IF task.deadline # <<>> THEN task.deadline[1] ELSE 0

\* s is a permutation of t.
IsPermutation(s, t) ==
    /\ Len(s) = Len(t)
    /\ \A x \in Range(s) \cup Range(t) :
          Cardinality({ i \in 1..Len(s) : s[i] = x }) = Cardinality({ i \in 1..Len(t) : t[i] = x })

\* The filtered tasks before they are sorted.
unsorted ==
    IF dbService = "supabase" THEN sbApplyFilters(table, filters)
    ELSE applyFilters(getTasks, filters)

\* C13 (deadline sort): sorted by deadline, the result is ordered by the
\* deadline instants with the epoch standing for a missing deadline, so a
\* task without a deadline comes before every task with a deadline after
\* the epoch when ascending and after them when descending; the result is
\* a permutation of the filtered tasks.
C13_DeadlineSort ==
    (last.op = "getTasksWithFilters" /\ sortOptions.field = "deadline")
        => /\ \A i, j \in 1..Len(loadedTasks) :
                  i < j => IF sortOptions.direction = "asc"
                           THEN DeadlineOrEpoch(loadedTasks[i]) <= DeadlineOrEpoch(loadedTasks[j])
                           ELSE DeadlineOrEpoch(loadedTasks[i]) >= DeadlineOrEpoch(loadedTasks[j])
           /\ \A i, j \in 1..Len(loadedTasks) :
                  (/\ loadedTasks[i].deadline = <<>>
                   /\ loadedTasks[j].deadline # <<>> /\ loadedTasks[j].deadline[1] > 0)
                      => IF sortOptions.direction = "asc" THEN i < j ELSE j < i
           /\ IsPermutation(loadedTasks, unsorted)

\* Ascending by deadline, a task without a deadline stands first and two
\* tasks with deadlines follow it.
C13_Witness ==
    /\ last.op = "getTasksWithFilters"
    /\ sortOptions = [ field |-> "deadline", direction |-> "asc" ]
    /\ Len(loadedTasks) >= 3
    /\ loadedTasks[1].deadline = <<>>
    /\ loadedTasks[2].deadline # <<>> /\ loadedTasks[3].deadline # <<>>
    /\ loadedTasks # unsorted

Reverse(s) == [ i \in 1..Len(s) |-> s[Len(s) + 1 - i] ]

\* The sort key of the claim: the instant for a date, the text without
\* regard to case for a string, the number otherwise.
SortKey(task, field) ==
    IF field = "deadline" THEN DeadlineOrEpoch(task)
    ELSE IF field \in {"title", "status"} THEN toLowerCase(task[field])
    ELSE task[field]

NoTies(taskList, field) ==
    \A i, j \in 1..Len(taskList) :
        i # j => SortKey(taskList[i], field) # SortKey(taskList[j], field)

\* C14 (sort reversal): when no two tasks of the result have equal sort
\* keys on the sort field, the descending result is the reverse of the
\* ascending one, and the ascending result is in increasing order of the
\* keys, strings being compared without regard to case.
C14_SortReversal ==
    last.op = "getTasksWithFilters"
        => LET field == sortOptions.field
               ascending == query(filters, [ field |-> field, direction |-> "asc" ])
               descending == query(filters, [ field |-> field, direction |-> "desc" ])
           IN  NoTies(unsorted, field)
                   => /\ descending = Reverse(ascending)
                      /\ loadedTasks = IF sortOptions.direction = "asc" THEN ascending ELSE descending
                      /\ \A i, j \in 1..Len(ascending) :
                            i < j => IF field \in {"title", "status"}
                                     THEN stringLess(SortKey(ascending[i], field), SortKey(ascending[j], field))
                                     ELSE SortKey(ascending[i], field) < SortKey(ascending[j], field)

\* Three titles, one in lower case, sorted descending: Mango, banana, Apple.
C14_Witness ==
    /\ last.op = "getTasksWithFilters"
    /\ sortOptions = [ field |-> "title", direction |-> "desc" ]
    /\ NoTies(unsorted, "title")
    /\ [ i \in 1..Len(loadedTasks) |-> loadedTasks[i].title ] = <<Mango, Banana, Apple>>

\* The last call imported the file that the last export downloaded.
ImportedDownload(extension) ==
    /\ last.op = "importTasks"
    /\ download # <<>>
    /\ last.arg = download[1].file
    /\ download[1].file.extension = extension

\* The tasks that the last import added to the store.
added == SubSeq(stored, Len(last.before) + 1, Len(stored))

\* C15 (JSON round trip): the tasks that the import of a JSON export adds
\* are equal to the exported tasks in every field: id, title, description,
\* status, deadline, parent_id, created_at, updated_at, labels, priority.
C15_JsonRoundTrip ==
    ImportedDownload("json") => added = download[1].source

\* C16 (CSV round trip): the import of a CSV export adds as many tasks as
\* were exported, in the same order, each with the title, status, priority,
\* labels and deadline of the exported task, also when a text holds a
\* comma, a double quote or a line break.
C16_CsvRoundTrip ==
    ImportedDownload("csv")
        => /\ Len(added) = Len(download[1].source)
           /\ \A i \in 1..Len(added) :
                 \A field \in {"title", "status", "priority", "labels", "deadline"} :
                     added[i][field] = download[1].source[i][field]

\* Every parent_id of the list names a task of the list, no task is its own
\* ancestor and no id is used twice.
IsForest(taskList) ==
    /\ \A i, j \in 1..Len(taskList) : i # j => taskList[i].id # taskList[j].id
    /\ \A t \in Range(taskList) : t.parent_id # <<>> => t.parent_id[1] \in Ids(taskList)
    /\ IsAcyclic(taskList)

\* C17 (Markdown hierarchy): after the import of the Markdown export of a
\* forest into an empty store, the i-th task added has the title and status
\* of the i-th exported bullet; it has no parent when that bullet is at
\* level 0, and otherwise its parent is the task added for the bullet of
\* the exported parent.
C17_MarkdownHierarchy ==
    (ImportedDownload("md") /\ last.before = <<>> /\ IsForest(download[1].source))
        => LET source == download[1].source
               bullets == flatten(buildTaskTree(source))
               exported(i) == CHOOSE t \in Range(source) : t.id = bullets[i]
           IN  /\ Len(added) = Len(bullets)
               /\ \A i \in 1..Len(added) :
                     /\ added[i].title = exported(i).title
                     /\ added[i].status = exported(i).status
                     /\ IF exported(i).parent_id = <<>>
                        THEN added[i].parent_id = <<>>
                        ELSE \E j \in 1..(i - 1) :
                                /\ bullets[j] = exported(i).parent_id[1]
                                /\ added[i].parent_id = << added[j].id >>

\* C18 (no silent failure): after an import, each record decoded from the
\* file was created and is counted in importedCount, or has an entry in the
\* reported errors; a record that validation rejects is among the reported.
C18_NoSilentFailure ==
    last.op = "importTasks"
        => importResult[1].importedCount + Len(importResult[1].errors)
               >= Len(decode(last.arg).tasks)

\* C19 (partial import success): after an import in which a create failed,
\* every valid record was tried (each is counted or has its error),
\* importedCount is the number of tasks the batch added to the store, and
\* the tasks stored before the batch are still stored.
C19_PartialImport ==
    (last.op = "importTasks" /\ importResult[1].success)
        => LET validTasks == SelectSeq(decode(last.arg).tasks, validTask)
           IN  /\ importResult[1].importedCount + Len(importResult[1].errors) = Len(validTasks)
               /\ importResult[1].importedCount = Len(stored) - Len(last.before)
               /\ SubSeq(stored, 1, Len(last.before)) = last.before
               /\ \A i \in 1..Len(added) : \E j \in 1..Len(validTasks) :
                     added[i].title = validTasks[j].title[1]

\* The create of the first record failed (its parent does not exist), the
\* second record was created.
C19_Witness ==
    /\ last.backend = "supabase"
    /\ last.op = "importTasks"
    /\ decode(last.arg).tasks # <<>>
    /\ decode(last.arg).tasks[1].parent_id = <<MissingId>>
    /\ importResult[1].importedCount = 1
    /\ Len(importResult[1].errors) = 1
    /\ importResult[1].errors[1].title = Apple
    /\ added # <<>> /\ added[1].title = Mango

\* C20 (invalid JSON aborts the import): after the import of a JSON file
\* whose text cannot be parsed, or whose value is not a list, the result has
\* success = false, importedCount = 0 and an error, and the stored
\* collection is the one stored before.
C20_InvalidJsonAborts ==
    (last.op = "importTasks" /\ last.arg.extension = "json" /\ last.arg.json.kind # "array")
        => /\ importResult[1].success = FALSE
           /\ importResult[1].importedCount = 0
           /\ Len(importResult[1].errors) > 0
           /\ stored = last.before

\* A JSON object was imported into a store that holds tasks.
C20_Witness ==
    /\ last.op = "importTasks"
    /\ last.arg.extension = "json" /\ last.arg.json.kind = "object"
    /\ last.before # <<>>
    /\ importResult # <<>> /\ ~importResult[1].success

\* The number of places at which `part` stands in `text`.
Occurrences(text, part) ==
    Cardinality({ i \in 0..(Len(text) - Len(part)) : SubSeq(text, i + 1, i + Len(part)) = part })

\* The number of records a reader finds for `task` in an exported file: the
\* items with its id in a JSON array, the CSV lines that begin with its
\* quoted title, the Markdown bullets with its status mark and title.
RecordsOf(file, task) ==
    IF file.extension = "json"
    THEN Cardinality({ i \in 1..Len(file.json.items) : file.json.items[i].id = << task.id >> })
    ELSE IF file.extension = "csv"
    THEN Occurrences(file.text, <<LineFeed, Quote>> \o doubleQuotes(task.title) \o <<Quote, Comma>>)
    ELSE Occurrences(file.text, <<Hyphen, Space>> \o statusEmoji(task.status) \o <<Space, Star, Star>>
                                  \o task.title \o <<Star, Star, LineFeed>>)

\* The stored tasks that a reader of the file cannot tell from `task`: those
\* with its id (JSON), its title (CSV), its status and title (Markdown).
Alike(file, task) ==
    { i \in 1..Len(stored) :
        IF file.extension = "json" THEN stored[i].id = task.id
        ELSE IF file.extension = "csv" THEN stored[i].title = task.title
        ELSE stored[i].title = task.title /\ stored[i].status = task.status }

\* C21 (includeCompleted): in each format, an export with includeCompleted
\* = false holds each stored task whose status is not done once and no
\* task that is done; with includeCompleted = true it holds each stored
\* task once.
C21_IncludeCompleted ==
    last.op = "exportTasks"
        => \A task \in Range(stored) :
              RecordsOf(download[1].file, task)
                  = Cardinality({ i \in Alike(download[1].file, task) :
                                    last.arg.includeCompleted \/ stored[i].status # DONE })

MaxPriority == 5

\* C22 (priority range): every stored task has a priority from 0 to 5,
\* whatever priorities the callers and the import files supplied.
C22_PriorityRange ==
    \A task \in Range(stored) : task.priority \in 0..MaxPriority

Erase(task) == [ task EXCEPT !.id = 0, !.created_at = 0, !.updated_at = 0 ]

EraseAll(taskList) == [ i \in 1..Len(taskList) |-> Erase(taskList[i]) ]

\* C24 (backend equivalence): after the same calls on browser storage and
\* on Supabase, the last call gave the same outcome, the same boolean and
\* the same tasks on both, and both store the same tasks, ids and
\* timestamps apart.
C24_BackendEquivalence ==
    last.backend = "both" /\ last.op # "none"
        => /\ last.ret.browser.outcome = last.ret.supabase.outcome
           /\ last.ret.browser.value = last.ret.supabase.value
           /\ EraseAll(last.ret.browser.tasks) = EraseAll(last.ret.supabase.tasks)
           /\ EraseAll(getTasks) = EraseAll(tableTasks(table))

\* C25 (a failed cascade delete is reported): when the service rejected a
\* request of a deleteTask (a select of children, the delete of a
\* descendant or of the target), deleteTask does not return true; and it
\* never returns true while the target or one of its descendants is stored.
C25_FailedDeleteReported ==
    (last.backend = "supabase" /\ last.op = "deleteTask" /\ last.returned /\ last.ok)
        => /\ last.ret = <<0>>
           /\ \A task \in Range(stored) :
                 task.id \notin {last.id} \cup Descendants(last.before, last.id)

\* C26 (add subtask): the task created by saving the form that the plus
\* icon of node N opened, the parent field left alone, has parent_id N.
C26_AddSubtask ==
    (last.op = "saveForm" /\ last.arg.subtaskOf # <<>> /\ ~last.arg.parentTouched)
        => last.ret[1].parent_id = last.arg.subtaskOf

\* C29 (parent options): while a task T of an acyclic store is edited, under
\* any filter, getAvailableParents returns and none of its options is T or
\* a descendant of T in the store; and a save of the edit form leaves an
\* acyclic store acyclic.
C29_ParentOptions ==
    /\ (form.isFormOpen /\ form.selectedTask # <<>> /\ IsAcyclic(stored))
           => \E r \in { getAvailableParents(form.selectedTask, loadedTasks) } :
                 /\ r.returned
                 /\ \A i \in 1..Len(r.options) :
                       r.options[i].id \notin {form.selectedTask[1].id}
                                               \cup Descendants(stored, form.selectedTask[1].id)
    /\ (last.op = "saveForm" /\ last.id # 0 /\ IsAcyclic(last.before)) => IsAcyclic(stored)

\* Under a filter, a task that has a descendant was given a parent chosen
\* among the options, and saved.
C29_Witness ==
    /\ last.op = "saveForm" /\ last.id # 0
    /\ filters # NoFilters
    /\ last.arg.parentTouched /\ last.arg.data.parent_id # <<>>
    /\ last.ret # <<>> /\ last.ret[1].parent_id = last.arg.data.parent_id
    /\ Descendants(stored, last.id) # {}

\* C27 (storage selection): after a page load that found a URL and a key
\* saved by the settings dialog and no build-time storage type, the
\* Supabase backend is selected and connected with the saved URL and key;
\* after a page load that found no URL or no key anywhere, the browser
\* backend is selected.
C27_StorageSelection ==
    last.op = "initializeDatabase" =>
        /\ (/\ truthy(last.arg.items.supabase_config_url)
            /\ truthy(last.arg.items.supabase_config_key)
            /\ last.arg.env.VITE_STORAGE_TYPE = <<>>)
               => /\ last.backend = "supabase"
                  /\ last.ok
                  /\ settings.client = << [ url |-> last.arg.items.supabase_config_url[1],
                                            key |-> last.arg.items.supabase_config_key[1] ] >>
        /\ (\/ ~truthy(last.arg.items.supabase_config_url)
               /\ ~truthy(last.arg.env.VITE_SUPABASE_URL)
            \/ ~truthy(last.arg.items.supabase_config_key)
               /\ ~truthy(last.arg.env.VITE_SUPABASE_ANON_KEY))
               => last.backend = "browser"

\* C28 (deleteTask terminates): on both backends, whatever the stored
\* collection (parent loops, a task that is its own parent, duplicate ids)
\* and whatever the id, a deleteTask call returns.
C28_DeleteTerminates == last.op = "deleteTask" => last.returned

\* C30 (mutations do not interleave): with an import in flight while the
\* user creates, edits and deletes tasks, whenever no call on browser
\* storage is in progress the stored collection is the one obtained by
\* applying the completed calls one after another, in the order in which
\* they completed, to the initial collection: no call's effect is lost.
C30_MutationsAtomic ==
    (eventLoop.importer.frame = <<>> /\ eventLoop.user.frame = <<>>)
        => localStorage = replay(eventLoop.completed, eventLoop.initial)

\* A user call completed between two createTask calls of the import, and
\* all three changed the collection.
C30_Witness ==
    /\ Len(eventLoop.completed) >= 3
    /\ eventLoop.completed[1].process = "importer"
    /\ eventLoop.completed[2].process = "user"
    /\ eventLoop.completed[3].process = "importer"
    /\ \A i \in 1..3 :
          replay(SubSeq(eventLoop.completed, 1, i), eventLoop.initial)
              # replay(SubSeq(eventLoop.completed, 1, i - 1), eventLoop.initial)

====
